---- MODULE Spec2Model ----
(***************************************************************************)
(* Model of the SKU ingestion pipeline of the Assembly.AI backend: the     *)
(* create-SKU request (quota guard, validation, duplicate check, insert),  *)
(* the background generation task (parse steps, video, QR code, commit,    *)
(* notification), the status poll, deletion, and the notification          *)
(* preference; and of its usage analytics: the public scan, completion and *)
(* question records and the overview read.  Every await of the JavaScript  *)
(* handlers is one step, so requests and background tasks interleave       *)
(* exactly where Node's event loop lets them.  The storage layer is the    *)
(* relational store of schema.sql: single statements are atomic,           *)
(* unique(company_id, sku_code) and the foreign keys of scans and          *)
(* questions (on delete cascade) are enforced, and a statement that        *)
(* matches no row changes nothing.                                         *)
(***************************************************************************)
EXTENDS Integers, FiniteSets, Sequences, TLC

\* ------------------------------------------------------------------ bounds
\* Number of create requests of one behaviour of Spec; the r-th request's item gets
\* id r (ids are fresh uuids in the code: unique and never reused).
MaxReq == 3
\* Number of create requests of one behaviour of SpecQuota (one company, distinct codes).
MaxQuotaReq == 4
\* Number of create requests of one behaviour of SpecStatus (with status polls).
MaxStatusReq == 2
\* Number of distinct SKU codes a request may carry.
MaxCodes == 2
\* Number of companies (each with one user, the one who signs the requests).
NumCompanies == 2
\* Number of create requests of one behaviour of SpecScan and SpecNotify.
MaxScanReq == 2
\* Number of public requests (scan, complete, question) that may be in flight together.
MaxPub == 1
\* Largest number of rows of table scans, and of table questions.
MaxScans == 2
MaxQuestions == 1
\* Number of session ids the public requests may carry.
MaxSessions == 1
\* Last hour of the clock.
MaxClock == 1
\* Largest number of steps of an extraction result handed to the generators.
MaxSteps == 10
\* Largest number of rows of the scan tables an analytics read is applied to, and
\* the number of session ids in them (besides 'anonymous').
MaxTableRows == 4
MaxTableSessions == 2
\* Largest number of rows of the scan tables a time-series read is applied to.
MaxSeriesRows == 3
\* Largest number of rows of the scan tables a time-of-day read is applied to.
MaxTodRows == 2
\* Largest number of rows of the question tables a top-questions read is applied to
\* (besides the one table that exceeds the default limit).
MaxQuestionRows == 3
\* Number of hours after the first at which the window of a read is computed.
MaxReadHours == 9

\* ------------------------------------------------------- program constants
\* sku_limit of the trial plan (signup, schema default, webhook downgrade).
TrialLimit == 2
\* sku_limit of the unlimited plan (PLANS.scale.skuLimit).
Unlimited == -1
\* Number of steps the placeholder parseSteps returns.
PlaceholderSteps == 6
\* Seconds of video per step in generateVideo.
SecondsPerStep == 38

Ids == 1..MaxReq
QuotaIds == 1..MaxQuotaReq
StatusIds == 1..MaxStatusReq
ScanIds == 1..MaxScanReq
\* The request slots of the model: those of the largest specification.
Slots == Ids \cup QuotaIds \cup StatusIds \cup ScanIds
Codes == 1..MaxCodes
Companies == 1..NumCompanies
\* One user per company; the user's id is the company's.
Users == Companies
\* SQL null / JavaScript undefined, for the columns and fields modelled as integers.
Null == -1
\* The ids a status poll may name: those of the rows, and 0, which no row ever has.
PollIds == 0..MaxStatusReq
PubIds == 1..MaxPub
\* The session ids a public request may carry (Null: none), and the text 'anonymous'.
Sessions == 1..MaxSessions
Anonymous == 0

VARIABLES
    sku_limit,      \* companies.sku_limit, per company
    skus,           \* table skus: a function from the ids of the stored rows to rows
    req,            \* the create requests: position in the handler, input, response
    task,           \* the background tasks processSkuGeneration, one per accepted request
    prefs,          \* table notification_preferences: qr_ready per user, or no row
    outbox,         \* the QR-ready emails delivered so far
    lastPoll,       \* the last status poll and its response
    maxInFlight,    \* history: per company with a finite limit, the largest number of
                    \* its create requests that were in flight together
    scans,          \* table scans: the rows in the order of their insertion
    questions,      \* table questions: the rows in the order of their insertion
    pub,            \* the public requests (scan, complete, question): position, input,
                    \* the SKU the lookup returned, response
    now,            \* the clock of the server and the database, in hours
    call,           \* the application of a pure function under check: input and result
    overview        \* the overview request in flight: position, the results of its
                    \* queries so far, response

vars == <<sku_limit, skus, req, task, prefs, outbox, lastPoll, maxInFlight,
          scans, questions, pub, now, call, overview>>

\* The state of the SKU pipeline, and the state of the usage analytics.
pipeline == <<sku_limit, skus, req, task, prefs, outbox, lastPoll, maxInFlight>>
analytics == <<scans, questions, pub, now, call, overview>>

\* ------------------------------------------------------------- storage layer
\* Faulty variant: the count without the status filter.
CountAnyStatus(rows, c) ==
    Cardinality({i \in DOMAIN rows : rows[i].company_id = c})

\* select count(*) from skus where company_id = c and status = 'live'
LiveCount(rows, c) ==
    Cardinality({i \in DOMAIN rows : rows[i].company_id = c /\ rows[i].status = "live"})

\* Faulty variant: the duplicate check passing over the failed SKUs.
ExistingSkuNotFailed(rows, c, k) ==
    {i \in DOMAIN rows : /\ rows[i].company_id = c /\ rows[i].sku_code = k
                         /\ rows[i].status # "error"}

\* select id from skus where company_id = c and sku_code = k  (.single())
ExistingSku(rows, c, k) ==
    {i \in DOMAIN rows : rows[i].company_id = c /\ rows[i].sku_code = k}

\* Faulty variant: a table without the unique constraint.
NoUniqueConstraint(rows, c, k) == FALSE

\* unique(company_id, sku_code): an insert of (c, k) is refused when a row has them.
UniqueViolation(rows, c, k) ==
    \E i \in DOMAIN rows : rows[i].company_id = c /\ rows[i].sku_code = k

\* Faulty variant: a row inserted with a step count already set.
NewSkuRowCounted(c, k) ==
    [company_id |-> c, sku_code |-> k, status |-> "processing",
     video_url |-> Null, video_duration |-> Null, step_count |-> 0,
     qr_code_url |-> Null, qr_target_url |-> Null]

\* The row the insert of the create handler stores (status 'processing', the
\* derived columns at their default, null).
NewSkuRow(c, k) ==
    [company_id |-> c, sku_code |-> k, status |-> "processing",
     video_url |-> Null, video_duration |-> Null, step_count |-> Null,
     qr_code_url |-> Null, qr_target_url |-> Null]

\* Faulty variant: an update that stores a row when none has the id (an upsert).
UpdateSkuUpsert(rows, i, changes) ==
    IF i \in DOMAIN rows
    THEN [rows EXCEPT ![i] = changes @@ rows[i]]
    ELSE (i :> (changes @@ NewSkuRow(0, Null))) @@ rows

\* update skus set ... where id = i : changes the row if it exists, else nothing.
UpdateSku(rows, i, changes) ==
    IF i \in DOMAIN rows
    THEN [rows EXCEPT ![i] = changes @@ rows[i]]
    ELSE rows

\* delete from skus where id = i and company_id = c
DeleteRows(rows, i, c) ==
    [j \in {x \in DOMAIN rows : ~(x = i /\ rows[x].company_id = c)} |-> rows[j]]

\* Faulty variant: a foreign key without "on delete cascade" (and unchecked).
CascadeMissing(rows, ids) == rows

\* sku_id references skus(id) on delete cascade: the rows of scans or questions that
\* remain when the SKUs that remain are ids.
Cascade(rows, ids) == SelectSeq(rows, LAMBDA row : row.sku_id \in ids)

\* .single(): the row when the query returns exactly one row, no data otherwise.
Single(ids) == IF Cardinality(ids) = 1 THEN CHOOSE i \in ids : TRUE ELSE Null

\* select id, company_id from skus where sku_code = k and status = 'live'
LiveSkuByCode(rows, k) ==
    {i \in DOMAIN rows : rows[i].sku_code = k /\ rows[i].status = "live"}

\* select id, company_id from skus where sku_code = k
SkuByCode(rows, k) == {i \in DOMAIN rows : rows[i].sku_code = k}

\* The data of a lookup with .single() over the rows ids: id and company_id.
FoundSku(rows, ids) ==
    IF Single(ids) = Null
    THEN [id |-> Null, company_id |-> Null]
    ELSE [id |-> Single(ids), company_id |-> rows[Single(ids)].company_id]

\* sku_id references skus(id): an insert naming SKU i is refused unless the row exists.
ForeignKeyHolds(rows, i) == i \in DOMAIN rows

\* The row POST /scan inserts at hour t (completed, completion_step and rating at
\* their defaults).
NewScanRow(sku, sessionId, t) ==
    [sku_id |-> sku.id, company_id |-> sku.company_id,
     session_id |-> IF sessionId = Null THEN Anonymous ELSE sessionId,
     hour_of_day |-> t % 24, completed |-> FALSE, completion_step |-> Null,
     rating |-> Null, scanned_at |-> t]

\* The row POST /question inserts at hour t.
NewQuestionRow(sku, sessionId, questionText, stepNumber, t) ==
    [sku_id |-> sku.id, company_id |-> sku.company_id,
     session_id |-> IF sessionId = Null THEN Anonymous ELSE sessionId,
     question_text |-> questionText, step_number |-> stepNumber, asked_at |-> t]

\* rating || null
OrNull(x) == IF x = Null \/ x = 0 THEN Null ELSE x

\* The scan rows with sku_id = i and session_id = sessionId (no row when the request
\* carries no session id).
MatchingScans(rows, i, sessionId) ==
    {j \in DOMAIN rows : rows[j].sku_id = i /\ rows[j].session_id = sessionId}

\* .order('scanned_at', {ascending: false}).limit(1): the matching rows one of which
\* the update takes (more than one when the latest timestamp is shared).
LatestScans(rows, i, sessionId) ==
    {j \in MatchingScans(rows, i, sessionId) :
        \A l \in MatchingScans(rows, i, sessionId) :
            rows[l].scanned_at <= rows[j].scanned_at}

\* ------------------------------------------------------------ pure functions
\* Faulty variant: the comparison off by one: denies only above the limit.
checkSkuLimitOffByOne(limit, count) ==
    IF limit = Unlimited THEN [allow |-> TRUE]
    ELSE IF count > limit
         THEN [allow |-> FALSE, code |-> 403, currentCount |-> count, limit |-> limit]
         ELSE [allow |-> TRUE]

\* checkSkuLimit's decision, given the company's sku_limit and the count of its
\* live SKUs: next() or the 403 response.
checkSkuLimit(limit, count) ==
    IF limit = Unlimited THEN [allow |-> TRUE]
    ELSE IF count >= limit
         THEN [allow |-> FALSE, code |-> 403, currentCount |-> count, limit |-> limit]
         ELSE [allow |-> TRUE]

\* parseSteps: the placeholder's list of steps (their numbers).
parseSteps == [n \in 1..PlaceholderSteps |-> n]

\* Faulty variant: a duration that does not depend on the steps.
generateVideoFlat(id, steps) ==
    [videoUrl |-> id,
     videoDuration |-> PlaceholderSteps * SecondsPerStep,
     stepCount |-> Len(steps)]

\* generateVideo's result for SKU id and the parsed steps.  The URL
\* https://storage.assemblyai.app/videos/<id>/assembly.mp4 is modelled by the id in it.
generateVideo(id, steps) ==
    [videoUrl |-> id,
     videoDuration |-> Len(steps) * SecondsPerStep,
     stepCount |-> Len(steps)]

\* generateQRCode's result for SKU id and code: the image /public/qr/<id>.png,
\* modelled by the id, and the URL it encodes, <QR_BASE_URL>/<skuCode>, modelled by
\* the code.
generateQRCode(id, skuCode) ==
    [qrCodeUrl |-> id, qrTargetUrl |-> skuCode]

\* Faulty variant: a response sent after the generation was awaited.
CreatedResponseAwaited(id, row) ==
    [code |-> 202, id |-> id, skuCode |-> row.sku_code, status |-> "live"]

\* The 202 response of the create handler, from the inserted row.
CreatedResponse(id, row) ==
    [code |-> 202, id |-> id, skuCode |-> row.sku_code, status |-> row.status]

\* Faulty variant: the lookup without the company filter.
GetStatusAnyCompany(rows, i, c) ==
    IF i \in DOMAIN rows
    THEN [code |-> 200, status |-> rows[i].status,
          sku |-> [id |-> i, status |-> rows[i].status,
                   qr_code_url |-> rows[i].qr_code_url,
                   qr_target_url |-> rows[i].qr_target_url,
                   video_url |-> rows[i].video_url,
                   step_count |-> rows[i].step_count]]
    ELSE [code |-> 404, error |-> "SKU not found"]

\* GET /:id/status for company c: the row with that id and company, or 404.
GetStatus(rows, i, c) ==
    IF i \in DOMAIN rows /\ rows[i].company_id = c
    THEN [code |-> 200, status |-> rows[i].status,
          sku |-> [id |-> i, status |-> rows[i].status,
                   qr_code_url |-> rows[i].qr_code_url,
                   qr_target_url |-> rows[i].qr_target_url,
                   video_url |-> rows[i].video_url,
                   step_count |-> rows[i].step_count]]
    ELSE [code |-> 404, error |-> "SKU not found"]

\* Faulty variant: no email for a user without a preference row.
ShouldNotifyRowOnly(pref) == pref = "true"

\* The condition of step 5: send unless a preference row exists with qr_ready false.
ShouldNotify(pref) == pref = "norow" \/ pref = "true"

\* ------------------------------------------------------------------- state
IdleReq == [pc |-> "idle", company |-> 0, skuCode |-> Null, productName |-> FALSE,
            file |-> FALSE, resp |-> [code |-> 0]]
\* A background task: its position, the steps parseSteps returned, the results of
\* the two generators (null before they have returned), the stage that threw.
NoVideo == [videoUrl |-> Null, videoDuration |-> Null, stepCount |-> Null]
NoQR == [qrCodeUrl |-> Null, qrTargetUrl |-> Null]
NoTask == [pc |-> "none", steps |-> <<>>, video |-> NoVideo, qr |-> NoQR,
           threw |-> "none"]
\* A public request: the handler (none, scan, complete, question), its position, its
\* body, the SKU its lookup returned (Null: none) and its response.
IdlePub == [kind |-> "none", pc |-> "idle", skuCode |-> Null, sessionId |-> Null,
            completionStep |-> Null, rating |-> Null, questionText |-> Null,
            stepNumber |-> Null,
            sku |-> [id |-> Null, company_id |-> Null], resp |-> [code |-> 0]]
NoCall == [op |-> "none"]
\* An overview request: its position (the query it is about to make), its company and
\* period, the start of its window, the results of the queries made, its response.
NoRate == [type |-> "none", tenths |-> 0]
IdleOverview ==
    [pc |-> "idle", company |-> 0, period |-> "",
     startDate |-> [filter |-> FALSE, date |-> 0, throws |-> FALSE],
     totalScans |-> 0, completedScans |-> 0, avgRating |-> NoRate, repeatRate |-> NoRate,
     resp |-> [code |-> 0]]

\* The request bodies: a code, or none; a product name or none; a file or none.
Bodies ==
    {[skuCode |-> k, productName |-> TRUE, file |-> TRUE] : k \in Codes}
    \cup {[skuCode |-> Null, productName |-> TRUE, file |-> TRUE],
          [skuCode |-> 1, productName |-> FALSE, file |-> TRUE],
          [skuCode |-> 1, productName |-> TRUE, file |-> FALSE]}

\* Two companies have signed up, the first on the trial plan, the second on the
\* unlimited plan; no SKU, no request.
InitPipeline ==
    /\ sku_limit = [c \in Companies |-> IF c = 1 THEN TrialLimit ELSE Unlimited]
    /\ skus = <<>>
    /\ req = [r \in Slots |-> IdleReq]
    /\ task = [r \in Slots |-> NoTask]
    /\ outbox = {}
    /\ lastPoll = [company |-> 0, id |-> 0, resp |-> [code |-> 0]]
    /\ maxInFlight = [c \in Companies |-> 0]

\* No scan, no question, no public request.
InitEvents ==
    /\ scans = <<>>
    /\ questions = <<>>
    /\ pub = [p \in PubIds |-> IdlePub]
    /\ now = 0
    /\ overview = IdleOverview

\* Every user has the preference row the signup inserts (qr_ready defaults to true).
Init ==
    /\ InitPipeline
    /\ prefs = [u \in Users |-> "true"]
    /\ InitEvents
    /\ call = NoCall

\* The signup does not look at the result of its insert into
\* notification_preferences: a user may have the row, or none.
InitNotify ==
    /\ InitPipeline
    /\ prefs \in [Users -> {"true", "norow"}]
    /\ InitEvents
    /\ call = NoCall

\* --------------------------------------------------- POST /api/skus (create)
\* The create requests of company c in flight: admitted by checkSkuLimit, their
\* item not yet live, failed or refused.
InFlight(c) ==
    Cardinality({r \in Slots : req[r].company = c /\ req[r].pc \in {"handler", "insert"}})
    + Cardinality({i \in DOMAIN skus : skus[i].company_id = c /\ skus[i].status = "processing"})

Max(a, b) == IF a >= b THEN a ELSE b

\* requireAuth and checkSkuLimit: the request of company c with body b arrives,
\* the middleware reads the company and counts its live SKUs.
CheckSkuLimit(r, c, b) ==
    /\ req[r].pc = "idle"
    /\ \A q \in Slots : q < r => req[q].pc # "idle"
    /\ LET d == checkSkuLimit(sku_limit[c], LiveCount(skus, c))
           q == [req[r] EXCEPT !.company = c, !.skuCode = b.skuCode,
                               !.productName = b.productName, !.file = b.file]
       IN /\ req' = [req EXCEPT ![r] =
                       IF d.allow THEN [q EXCEPT !.pc = "handler"]
                       ELSE [q EXCEPT !.pc = "done",
                                      !.resp = [code |-> 403,
                                                currentCount |-> d.currentCount,
                                                limit |-> d.limit]]]
          /\ maxInFlight' =
                IF d.allow /\ sku_limit[c] # Unlimited
                THEN [maxInFlight EXCEPT ![c] = Max(@, InFlight(c) + 1)]
                ELSE maxInFlight
    /\ UNCHANGED <<analytics, sku_limit, skus, task, prefs, outbox, lastPoll>>

\* The handler up to its first await: the 400s, then the duplicate check.
CheckDuplicate(r) ==
    /\ req[r].pc = "handler"
    /\ req' = [req EXCEPT ![r] =
                IF req[r].skuCode = Null \/ ~req[r].productName
                THEN [@ EXCEPT !.pc = "done", !.resp = [code |-> 400, error |-> "fields"]]
                ELSE IF ~req[r].file
                THEN [@ EXCEPT !.pc = "done", !.resp = [code |-> 400, error |-> "file"]]
                ELSE IF ExistingSku(skus, req[r].company, req[r].skuCode) # {}
                THEN [@ EXCEPT !.pc = "done", !.resp = [code |-> 409]]
                ELSE [@ EXCEPT !.pc = "insert"]]
    /\ UNCHANGED <<analytics, sku_limit, skus, task, prefs, outbox, lastPoll, maxInFlight>>

\* The insert: refused by the unique constraint (skuError is thrown, the handler's
\* catch answers 500), or the row is stored, 202 is sent and the background task
\* is started.
InsertSku(r) ==
    /\ req[r].pc = "insert"
    /\ IF UniqueViolation(skus, req[r].company, req[r].skuCode)
       THEN /\ req' = [req EXCEPT ![r] = [@ EXCEPT !.pc = "done", !.resp = [code |-> 500]]]
            /\ UNCHANGED <<skus, task>>
       ELSE LET row == NewSkuRow(req[r].company, req[r].skuCode)
            IN /\ skus' = (r :> row) @@ skus
               /\ req' = [req EXCEPT ![r] =
                            [@ EXCEPT !.pc = "done", !.resp = CreatedResponse(r, row)]]
               /\ task' = [task EXCEPT ![r] = [NoTask EXCEPT !.pc = "parse"]]
    /\ UNCHANGED <<analytics, sku_limit, prefs, outbox, lastPoll, maxInFlight>>

\* ------------------------------------------- processSkuGeneration (background)
\* Faulty variant: a rejected stage is logged and the task goes on to the commit.
ThrowSwallowed(r, stage) ==
    task' = [task EXCEPT ![r] = [@ EXCEPT !.pc = "commit", !.threw = stage]]

\* A rejected stage leaves the async function: the .catch of the create handler takes over.
Throw(r, stage) ==
    task' = [task EXCEPT ![r] = [@ EXCEPT !.pc = "catch", !.threw = stage]]

\* 1. parseSteps returns the steps, or throws.
ParseSteps(r) ==
    /\ task[r].pc = "parse"
    /\ \/ task' = [task EXCEPT ![r] = [@ EXCEPT !.pc = "video", !.steps = parseSteps]]
       \/ Throw(r, "parse")
    /\ UNCHANGED <<analytics, sku_limit, skus, req, prefs, outbox, lastPoll, maxInFlight>>

\* 2. generateVideo resolves, or rejects.
GenerateVideo(r) ==
    /\ task[r].pc = "video"
    /\ \/ task' = [task EXCEPT ![r] =
                    [@ EXCEPT !.pc = "qr", !.video = generateVideo(r, task[r].steps)]]
       \/ Throw(r, "video")
    /\ UNCHANGED <<analytics, sku_limit, skus, req, prefs, outbox, lastPoll, maxInFlight>>

\* 3. generateQRCode resolves, or rejects.
GenerateQRCode(r) ==
    /\ task[r].pc = "qr"
    /\ \/ task' = [task EXCEPT ![r] =
                    [@ EXCEPT !.pc = "commit",
                              !.qr = generateQRCode(r, req[r].skuCode)]]
       \/ Throw(r, "qr")
    /\ UNCHANGED <<analytics, sku_limit, skus, req, prefs, outbox, lastPoll, maxInFlight>>

\* Faulty variant: the two results of generateQRCode written to each other's column.
CommitColumnsSwapped(v, q) ==
    [status |-> "live", video_url |-> v.videoUrl, video_duration |-> v.videoDuration,
     step_count |-> v.stepCount, qr_code_url |-> q.qrTargetUrl,
     qr_target_url |-> q.qrCodeUrl]

\* The columns the update of step 4 writes, from the results v of generateVideo and
\* q of generateQRCode.
CommitColumns(v, q) ==
    [status |-> "live", video_url |-> v.videoUrl, video_duration |-> v.videoDuration,
     step_count |-> v.stepCount, qr_code_url |-> q.qrCodeUrl,
     qr_target_url |-> q.qrTargetUrl]

\* Steps 2 to 4 for the SKU id with code skuCode and the extracted steps: the
\* columns the update of step 4 writes.
GenerationColumns(id, skuCode, steps) ==
    CommitColumns(generateVideo(id, steps), generateQRCode(id, skuCode))

\* The columns step 4 writes for the item of request r.
LiveColumns(r) == CommitColumns(task[r].video, task[r].qr)

\* 4. update skus set status = 'live', ... where id = sku.id
CommitLive(r) ==
    /\ task[r].pc = "commit"
    /\ skus' = UpdateSku(skus, r, LiveColumns(r))
    /\ task' = [task EXCEPT ![r] = [@ EXCEPT !.pc = "prefs"]]
    /\ UNCHANGED <<analytics, sku_limit, req, prefs, outbox, lastPoll, maxInFlight>>

\* 5. read the user's qr_ready preference; send unless it is false.
ReadPrefs(r) ==
    /\ task[r].pc = "prefs"
    /\ task' = [task EXCEPT ![r] =
                 [@ EXCEPT !.pc = IF ShouldNotify(prefs[req[r].company])
                                  THEN "email" ELSE "end"]]
    /\ UNCHANGED <<analytics, sku_limit, skus, req, prefs, outbox, lastPoll, maxInFlight>>

\* sendQRReadyEmail delivers the message, or rejects.
SendQRReadyEmail(r) ==
    /\ task[r].pc = "email"
    /\ \/ /\ outbox' = outbox \cup
                {[to |-> req[r].company, skuCode |-> req[r].skuCode,
                  qrCodeUrl |-> task[r].qr.qrCodeUrl,
                  qrTargetUrl |-> task[r].qr.qrTargetUrl]}
          /\ task' = [task EXCEPT ![r] = [@ EXCEPT !.pc = "end"]]
       \/ /\ Throw(r, "email")
          /\ UNCHANGED outbox
    /\ UNCHANGED <<analytics, sku_limit, skus, req, prefs, lastPoll, maxInFlight>>

\* The .catch of the create handler: update skus set status = 'error' where id = sku.id
MarkError(r) ==
    /\ task[r].pc = "catch"
    /\ skus' = UpdateSku(skus, r, [status |-> "error"])
    /\ task' = [task EXCEPT ![r] = [@ EXCEPT !.pc = "end"]]
    /\ UNCHANGED <<analytics, sku_limit, req, prefs, outbox, lastPoll, maxInFlight>>

\* ------------------------------------------------------------ other handlers
\* GET /api/skus/:id/status by the user of company c.
PollStatus(c, i) ==
    /\ lastPoll' = [company |-> c, id |-> i, resp |-> GetStatus(skus, i, c)]
    /\ UNCHANGED <<analytics, sku_limit, skus, req, task, prefs, outbox, maxInFlight>>

\* DELETE /api/skus/:id by the user of company c.
DeleteSku(c, i) ==
    /\ i \in DOMAIN skus
    /\ skus[i].company_id = c
    /\ skus' = DeleteRows(skus, i, c)
    /\ scans' = Cascade(scans, DOMAIN skus')
    /\ questions' = Cascade(questions, DOMAIN skus')
    /\ UNCHANGED <<sku_limit, req, task, prefs, outbox, lastPoll, maxInFlight,
                   pub, now, call, overview>>

\* PUT /api/settings/notifications by user u: update ... where user_id = u.
PutNotifications(u, qrReady) ==
    /\ prefs[u] # "norow"
    /\ prefs[u] # qrReady
    /\ prefs' = [prefs EXCEPT ![u] = qrReady]
    /\ UNCHANGED <<analytics, sku_limit, skus, req, task, outbox, lastPoll, maxInFlight>>

\* ------------------------------------------------------- analytics reads
\* The period presets of getStartDate and their length in days.
PeriodDays == [p \in {"7d", "30d", "3m", "6m", "1y"} |->
                 CASE p = "7d" -> 7 [] p = "30d" -> 30 [] p = "3m" -> 90
                   [] p = "6m" -> 180 [] p = "1y" -> 365]
HoursPerDay == 24

\* The period values for which map[period] is a property the object literal inherits
\* from Object.prototype: 'constructor' (and toString, valueOf, ...).
InheritedNames == {"constructor"}

\* getStartDate(period) at hour t: the start of the window, or null (no filter).
\* For an inherited name map[period] is a function: !map[period] is false,
\* d.getDate() - map[period] is NaN, and toISOString throws on the invalid Date.
getStartDate(period, t) ==
    IF period \in DOMAIN PeriodDays
    THEN [filter |-> TRUE, date |-> t - PeriodDays[period] * HoursPerDay, throws |-> FALSE]
    ELSE IF period \in InheritedNames
    THEN [filter |-> FALSE, date |-> 0, throws |-> TRUE]
    ELSE [filter |-> FALSE, date |-> 0, throws |-> FALSE]

\* if (startDate) query = query.gte(column, startDate)
Gte(at, startDate) == startDate.filter => at >= startDate.date

\* from('scans').select(...).eq('company_id', c) [.gte('scanned_at', startDate)]
ScansQuery(rows, c, startDate) ==
    SelectSeq(rows, LAMBDA row : row.company_id = c /\ Gte(row.scanned_at, startDate))

\* from('questions').select(...).eq('company_id', c) [.gte('asked_at', startDate)]
QuestionsQuery(rows, c, startDate) ==
    SelectSeq(rows, LAMBDA row : row.company_id = c /\ Gte(row.asked_at, startDate))

\* x.toFixed(1) for x = num / den >= 0: a string, modelled by its number of tenths.
ToFixed1(num, den) == [type |-> "string", tenths |-> (20 * num + den) \div (2 * den)]
\* The number 0 of the conditional expressions (cond ? x.toFixed(1) : 0).
NumberZero == [type |-> "number", tenths |-> 0]

\* allScans.forEach(s => sessionCounts[s.session_id] = (sessionCounts[s.session_id] || 0) + 1)
RECURSIVE SessionCounts(_)
SessionCounts(rows) ==
    IF rows = <<>> THEN <<>>
    ELSE LET counts == SessionCounts(SubSeq(rows, 1, Len(rows) - 1))
             s == rows[Len(rows)].session_id
         IN IF s \in DOMAIN counts
            THEN [counts EXCEPT ![s] = @ + 1]
            ELSE (s :> 1) @@ counts

\* ratings.reduce((sum, r) => sum + r.rating, 0)
RECURSIVE SumRatings(_)
SumRatings(rows) ==
    IF rows = <<>> THEN 0
    ELSE SumRatings(SubSeq(rows, 1, Len(rows) - 1)) + rows[Len(rows)].rating

\* Faulty variant: a session counts as repeated from its first scan on.
RepeatSessionsFromOne(counts) == {s \in DOMAIN counts : counts[s] >= 1}

\* Object.values(sessionCounts).filter(c => c > 1)
RepeatSessions(counts) == {s \in DOMAIN counts : counts[s] > 1}

\* GET /api/analytics/overview for company c at hour t, on tables that do not
\* change between its queries: the body of the response.
Overview(scanRows, skuRows, c, period, t) ==
    LET startDate == getStartDate(period, t)
        all == ScansQuery(scanRows, c, startDate)
        totalScans == Len(all)
        completedScans == Len(SelectSeq(all, LAMBDA row : row.completed))
        ratings == SelectSeq(all, LAMBDA row : row.rating # Null)
        sessionCounts == SessionCounts(all)
        repeatSessions == Cardinality(RepeatSessions(sessionCounts))
        totalSessions == Cardinality(DOMAIN sessionCounts)
    IN [period |-> period,
        totalScans |-> totalScans,
        completedScans |-> completedScans,
        completionRate |-> IF totalScans # 0
                           THEN ToFixed1(completedScans * 100, totalScans)
                           ELSE NumberZero,
        avgRating |-> IF Len(ratings) # 0
                      THEN ToFixed1(SumRatings(ratings), Len(ratings))
                      ELSE [type |-> "null", tenths |-> 0],
        repeatRate |-> IF totalSessions # 0
                       THEN ToFixed1(repeatSessions * 100, totalSessions)
                       ELSE NumberZero,
        activeSKUs |-> LiveCount(skuRows, c)]

\* The hour at which the reads under check are made, and the hours of the scans
\* in their tables: one before the 7-day window of the read, one inside it.
ReadHour == 200
ScanHours == {0, 100}

\* A scan row of company c (of the company's item c): inserted by POST /scan at hour
\* t for session s, and completed by POST /complete or not.
ScanRowAt(c, s, completed, t) ==
    [NewScanRow([id |-> c, company_id |-> c], s, t) EXCEPT
        !.completed = completed,
        !.completion_step = IF completed THEN 4 ELSE Null,
        !.rating = IF completed THEN 4 ELSE Null]

TableRows ==
    {ScanRowAt(c, s, b, t) : c \in Companies, s \in {Null} \cup (1..MaxTableSessions),
                             b \in BOOLEAN, t \in ScanHours}

\* The scan tables: up to MaxTableRows rows in the order of their insertion.
ScanTables ==
    {tb \in UNION {[1..n -> TableRows] : n \in 0..MaxTableRows} :
        \A i \in 1..(Len(tb) - 1) : tb[i].scanned_at <= tb[i + 1].scanned_at}

\* Table skus of the reads under check: each company has one live item.
ReadSkus == [c \in Companies |-> [NewSkuRow(c, c) EXCEPT !.status = "live"]]

\* An overview request of a company for a period, on a scan table.
InitOverview ==
    /\ InitPipeline
    /\ prefs = [u \in Users |-> "true"]
    /\ InitEvents
    /\ call \in {[op |-> "overview", done |-> FALSE, rows |-> tb, company |-> c,
                   period |-> p, out |-> [period |-> "none"]] :
                     tb \in ScanTables, c \in Companies, p \in {"7d", "all"}}

\* GET /api/analytics/overview answers.
GetOverview ==
    /\ call.op = "overview"
    /\ ~call.done
    /\ call' = [call EXCEPT
                  !.done = TRUE,
                  !.out = Overview(call.rows, ReadSkus, call.company, call.period,
                                   ReadHour)]
    /\ UNCHANGED <<pipeline, overview, scans, questions, pub, now>>

NextOverview == GetOverview

SpecOverview == InitOverview /\ [][NextOverview]_vars

\* ------------------------------------- the generation stages as a function
\* The lists of steps an extraction may hand to generateVideo: 0 to MaxSteps steps.
StepLists == {[n \in 1..k |-> n] : k \in 0..MaxSteps}

\* Two extraction results, for two SKUs, before the generators have run.
InitVideo ==
    /\ InitPipeline
    /\ prefs = [u \in Users |-> "true"]
    /\ InitEvents
    /\ call \in {[op |-> "generate", done |-> FALSE, steps |-> <<a, b>>,
                   out |-> <<NewSkuRow(1, 1), NewSkuRow(1, 2)>>] : a, b \in StepLists}

\* Steps 2 to 4 of processSkuGeneration on each of the two extraction results: the
\* rows as the update of step 4 leaves them.
ApplyGeneration ==
    /\ call.op = "generate"
    /\ ~call.done
    /\ call' = [call EXCEPT
                  !.done = TRUE,
                  !.out = [i \in {1, 2} |->
                             GenerationColumns(i, call.out[i].sku_code, call.steps[i])
                             @@ call.out[i]]]
    /\ UNCHANGED <<pipeline, overview, scans, questions, pub, now>>

NextVideo == ApplyGeneration

SpecVideo == InitVideo /\ [][NextVideo]_vars

\* ------------------------------------------------ public analytics handlers
\* The body values a public request may carry.
PubCodes == Codes \cup {Null}
PubSessions == Sessions \cup {Null}
ScanRatings == {3}
StepInputs == {4}
QuestionTexts == {1, Null}

\* POST /api/analytics/scan with body {skuCode: k, sessionId: s}, up to the insert:
\* 400 without a code, the lookup of the live SKU, 404 when it returns no data.
\* (The request is taken while table scans has room for its row.)
PostScanLookup(p, k, s) ==
    /\ pub[p].pc \in {"idle", "done"}
    /\ Len(scans) < MaxScans
    /\ LET q == [IdlePub EXCEPT !.kind = "scan", !.skuCode = k, !.sessionId = s]
           sku == FoundSku(skus, LiveSkuByCode(skus, k))
       IN pub' = [pub EXCEPT ![p] =
                    IF k = Null
                    THEN [q EXCEPT !.pc = "done", !.resp = [code |-> 400]]
                    ELSE IF sku.id = Null
                    THEN [q EXCEPT !.pc = "done", !.resp = [code |-> 404]]
                    ELSE [q EXCEPT !.pc = "write", !.sku = sku]]
    /\ UNCHANGED <<pipeline, overview, scans, questions, now, call>>

\* The insert into scans (its result is not looked at), then {success: true}.
PostScanInsert(p) ==
    /\ pub[p].kind = "scan"
    /\ pub[p].pc = "write"
    /\ scans' = IF ForeignKeyHolds(skus, pub[p].sku.id)
                THEN Append(scans, NewScanRow(pub[p].sku, pub[p].sessionId, now))
                ELSE scans
    /\ pub' = [pub EXCEPT ![p] = [@ EXCEPT !.pc = "done",
                                           !.resp = [code |-> 200, success |-> TRUE]]]
    /\ UNCHANGED <<pipeline, overview, questions, now, call>>

\* POST /api/analytics/complete with body {skuCode: k, sessionId: s, completionStep:
\* n, rating: g}, up to the update: the lookup of the SKU, 404 when it returns no data.
PostCompleteLookup(p, k, s, n, g) ==
    /\ pub[p].pc \in {"idle", "done"}
    /\ LET q == [IdlePub EXCEPT !.kind = "complete", !.skuCode = k, !.sessionId = s,
                                !.completionStep = n, !.rating = g]
           sku == FoundSku(skus, SkuByCode(skus, k))
       IN pub' = [pub EXCEPT ![p] =
                    IF sku.id = Null
                    THEN [q EXCEPT !.pc = "done", !.resp = [code |-> 404]]
                    ELSE [q EXCEPT !.pc = "write", !.sku = sku]]
    /\ UNCHANGED <<pipeline, overview, scans, questions, now, call>>

\* The update of the latest scan row of the SKU and session (of no row when there
\* is none), then {success: true}.
PostCompleteUpdate(p) ==
    /\ pub[p].kind = "complete"
    /\ pub[p].pc = "write"
    /\ LET latest == LatestScans(scans, pub[p].sku.id, pub[p].sessionId)
       IN IF latest = {}
          THEN scans' = scans
          ELSE \E j \in latest :
                  scans' = [scans EXCEPT ![j] =
                              [@ EXCEPT !.completed = TRUE,
                                        !.completion_step = pub[p].completionStep,
                                        !.rating = OrNull(pub[p].rating)]]
    /\ pub' = [pub EXCEPT ![p] = [@ EXCEPT !.pc = "done",
                                           !.resp = [code |-> 200, success |-> TRUE]]]
    /\ UNCHANGED <<pipeline, overview, questions, now, call>>

\* POST /api/analytics/question with body {skuCode: k, sessionId: s, questionText:
\* x, stepNumber: n}, up to the insert: 400 without code or text, the lookup of the
\* SKU, 404 when it returns no data.
PostQuestionLookup(p, k, s, x, n) ==
    /\ pub[p].pc \in {"idle", "done"}
    /\ Len(questions) < MaxQuestions
    /\ LET q == [IdlePub EXCEPT !.kind = "question", !.skuCode = k, !.sessionId = s,
                                !.questionText = x, !.stepNumber = n]
           sku == FoundSku(skus, SkuByCode(skus, k))
       IN pub' = [pub EXCEPT ![p] =
                    IF k = Null \/ x = Null
                    THEN [q EXCEPT !.pc = "done", !.resp = [code |-> 400]]
                    ELSE IF sku.id = Null
                    THEN [q EXCEPT !.pc = "done", !.resp = [code |-> 404]]
                    ELSE [q EXCEPT !.pc = "write", !.sku = sku]]
    /\ UNCHANGED <<pipeline, overview, scans, questions, now, call>>

\* The insert into questions (its result is not looked at), then {success: true}.
PostQuestionInsert(p) ==
    /\ pub[p].kind = "question"
    /\ pub[p].pc = "write"
    /\ questions' = IF ForeignKeyHolds(skus, pub[p].sku.id)
                    THEN Append(questions,
                                NewQuestionRow(pub[p].sku, pub[p].sessionId,
                                               pub[p].questionText, pub[p].stepNumber, now))
                    ELSE questions
    /\ pub' = [pub EXCEPT ![p] = [@ EXCEPT !.pc = "done",
                                           !.resp = [code |-> 200, success |-> TRUE]]]
    /\ UNCHANGED <<pipeline, overview, scans, now, call>>

\* An hour passes.
Tick ==
    /\ now < MaxClock
    /\ now' = now + 1
    /\ UNCHANGED <<pipeline, overview, scans, questions, pub, call>>

\* The public requests of the consumer page together with the create requests (each
\* by a company of its own, all with the same SKU code) and the deletions.  A
\* public request that inserts is taken while its table has room.
ScanBody == [skuCode |-> 1, productName |-> TRUE, file |-> TRUE]
ScanCompany(r) == ((r - 1) % NumCompanies) + 1

NextScan ==
    \/ \E r \in ScanIds : CheckSkuLimit(r, ScanCompany(r), ScanBody)
    \/ \E r \in ScanIds : CheckDuplicate(r)
    \/ \E r \in ScanIds : InsertSku(r)
    \/ \E r \in ScanIds : ParseSteps(r)
    \/ \E r \in ScanIds : GenerateVideo(r)
    \/ \E r \in ScanIds : GenerateQRCode(r)
    \/ \E r \in ScanIds : CommitLive(r)
    \/ \E r \in ScanIds : ReadPrefs(r)
    \/ \E r \in ScanIds : SendQRReadyEmail(r)
    \/ \E r \in ScanIds : MarkError(r)
    \/ \E c \in Companies, i \in ScanIds : DeleteSku(c, i)
    \/ \E p \in PubIds, k \in PubCodes, s \in PubSessions : PostScanLookup(p, k, s)
    \/ \E p \in PubIds : PostScanInsert(p)
    \/ \E p \in PubIds, k \in PubCodes, s \in PubSessions, n \in StepInputs,
          g \in ScanRatings : PostCompleteLookup(p, k, s, n, g)
    \/ \E p \in PubIds : PostCompleteUpdate(p)
    \/ \E p \in PubIds, k \in PubCodes, s \in PubSessions, x \in QuestionTexts,
          n \in StepInputs : PostQuestionLookup(p, k, s, x, n)
    \/ \E p \in PubIds : PostQuestionInsert(p)
    \/ Tick

SpecScan == Init /\ [][NextScan]_vars

Next ==
    \/ \E r \in Ids, c \in Companies, b \in Bodies : CheckSkuLimit(r, c, b)
    \/ \E r \in Ids : CheckDuplicate(r)
    \/ \E r \in Ids : InsertSku(r)
    \/ \E r \in Ids : ParseSteps(r)
    \/ \E r \in Ids : GenerateVideo(r)
    \/ \E r \in Ids : GenerateQRCode(r)
    \/ \E r \in Ids : CommitLive(r)
    \/ \E r \in Ids : ReadPrefs(r)
    \/ \E r \in Ids : SendQRReadyEmail(r)
    \/ \E r \in Ids : MarkError(r)
    \/ \E c \in Companies, i \in Ids : DeleteSku(c, i)

Spec == Init /\ [][Next]_vars

\* The requests of the trial company alone, each with a code of its own: the
\* behaviours in which the quota guard is the only thing that refuses a request.
QuotaBody(r) == [skuCode |-> r, productName |-> TRUE, file |-> TRUE]

NextQuota ==
    \/ \E r \in QuotaIds : CheckSkuLimit(r, 1, QuotaBody(r))
    \/ \E r \in QuotaIds : CheckDuplicate(r)
    \/ \E r \in QuotaIds : InsertSku(r)
    \/ \E r \in QuotaIds : ParseSteps(r)
    \/ \E r \in QuotaIds : GenerateVideo(r)
    \/ \E r \in QuotaIds : GenerateQRCode(r)
    \/ \E r \in QuotaIds : CommitLive(r)
    \/ \E r \in QuotaIds : ReadPrefs(r)
    \/ \E r \in QuotaIds : SendQRReadyEmail(r)
    \/ \E r \in QuotaIds : MarkError(r)
    \/ \E i \in QuotaIds : DeleteSku(1, i)

SpecQuota == Init /\ [][NextQuota]_vars

\* The requests together with the status polls and the preference updates.
NextStatus ==
    \/ \E r \in StatusIds, c \in Companies, b \in Bodies : CheckSkuLimit(r, c, b)
    \/ \E r \in StatusIds : CheckDuplicate(r)
    \/ \E r \in StatusIds : InsertSku(r)
    \/ \E r \in StatusIds : ParseSteps(r)
    \/ \E r \in StatusIds : GenerateVideo(r)
    \/ \E r \in StatusIds : GenerateQRCode(r)
    \/ \E r \in StatusIds : CommitLive(r)
    \/ \E r \in StatusIds : ReadPrefs(r)
    \/ \E r \in StatusIds : SendQRReadyEmail(r)
    \/ \E r \in StatusIds : MarkError(r)
    \/ \E c \in Companies, i \in StatusIds : DeleteSku(c, i)
    \/ \E c \in Companies, i \in PollIds : PollStatus(c, i)
    \/ \E u \in Users, b \in {"true", "false"} : PutNotifications(u, b)

SpecStatus == Init /\ [][NextStatus]_vars

\* The requests together with the preference updates, from the states in which a
\* user may have no preference row.
NextNotify ==
    \/ \E r \in ScanIds, c \in Companies, b \in Bodies : CheckSkuLimit(r, c, b)
    \/ \E r \in ScanIds : CheckDuplicate(r)
    \/ \E r \in ScanIds : InsertSku(r)
    \/ \E r \in ScanIds : ParseSteps(r)
    \/ \E r \in ScanIds : GenerateVideo(r)
    \/ \E r \in ScanIds : GenerateQRCode(r)
    \/ \E r \in ScanIds : CommitLive(r)
    \/ \E r \in ScanIds : ReadPrefs(r)
    \/ \E r \in ScanIds : SendQRReadyEmail(r)
    \/ \E r \in ScanIds : MarkError(r)
    \/ \E c \in Companies, i \in ScanIds : DeleteSku(c, i)
    \/ \E u \in Users, b \in {"true", "false"} : PutNotifications(u, b)

SpecNotify == InitNotify /\ [][NextNotify]_vars

\* --------------------------------------------------- GET /api/analytics/scans
\* Time is counted in hours since 1970-01-01T00:00Z.  A Date's UTC fields are those
\* of its hour; its local fields (getDate, getDay, getMonth, getFullYear) are those
\* of its hour plus the offset of the server's time zone.
HourOf(year, month, day, hour) ==
    LET y == IF month <= 2 THEN year - 1 ELSE year
        era == y \div 400
        yoe == y - era * 400
        mp == (month + 9) % 12
        doy == (153 * mp + 2) \div 5 + day - 1
        doe == yoe * 365 + yoe \div 4 - yoe \div 100 + doy
    IN (era * 146097 + doe - 719468) * HoursPerDay + hour

\* The calendar date of the day number n (days since 1970-01-01), as Date computes it.
DateOf(n) ==
    LET z == n + 719468
        era == z \div 146097
        doe == z - era * 146097
        yoe == (doe - doe \div 1460 + doe \div 36524 - doe \div 146096) \div 365
        doy == doe - (365 * yoe + yoe \div 4 - yoe \div 100)
        mp == (5 * doy + 2) \div 153
        m == IF mp < 10 THEN mp + 3 ELSE mp - 9
    IN [year |-> IF m <= 2 THEN yoe + era * 400 + 1 ELSE yoe + era * 400,
        month |-> m,
        day |-> doy - (153 * mp + 2) \div 5 + 1]

\* d.getDay() of the day number n: 0 is Sunday (1970-01-01 was a Thursday).
DayOfWeek(n) == (n + 4) % 7

\* d.toISOString().split('T')[0] of the Date at hour t: 'YYYY-MM-DD' in UTC, modelled
\* by <<year, month, day>>.
IsoDate(t) ==
    LET d == DateOf(t \div HoursPerDay) IN <<d.year, d.month, d.day>>

\* getGroupBy(period)
getGroupBy(period) ==
    IF period = "7d" THEN "day"
    ELSE IF period = "30d" THEN "day"
    ELSE IF period = "3m" \/ period = "6m" THEN "week"
    ELSE "month"

\* The key groupScans gives a scan of hour t on a server whose time zone is tz hours
\* ahead of UTC: the UTC date; the UTC date of the Date set back by the local
\* weekday (start.setDate(d.getDate() - d.getDay())); or the local year and month
\* ('YYYY-MM', modelled by <<year, month>>).
GroupKey(t, groupBy, tz) ==
    IF groupBy = "day" THEN IsoDate(t)
    ELSE IF groupBy = "week"
    THEN IsoDate(t - DayOfWeek((t + tz) \div HoursPerDay) * HoursPerDay)
    ELSE LET d == DateOf((t + tz) \div HoursPerDay) IN <<d.year, d.month>>

\* a.localeCompare(b) < 0 for two keys of one kind: the order of the strings
\* 'YYYY-MM-DD' or 'YYYY-MM' is the lexicographic order of their fields.
RECURSIVE KeyBefore(_, _)
KeyBefore(a, b) ==
    IF a = <<>> \/ b = <<>> THEN FALSE
    ELSE Head(a) < Head(b) \/ (Head(a) = Head(b) /\ KeyBefore(Tail(a), Tail(b)))

\* The sort of groupScans: the entries in ascending order of their keys.
RECURSIVE SortEntries(_)
SortEntries(entries) ==
    IF entries = {} THEN <<>>
    ELSE LET first == CHOOSE e \in entries :
                          \A f \in entries \ {e} : KeyBefore(e.date, f.date)
         IN <<first>> \o SortEntries(entries \ {first})

\* groupScans(scans, groupBy): the count of the scans per key, as [{date, count}]
\* sorted by date.
groupScans(rows, groupBy, tz) ==
    LET keys == {GroupKey(rows[j].scanned_at, groupBy, tz) : j \in DOMAIN rows}
        count(k) == Cardinality({j \in DOMAIN rows :
                                    GroupKey(rows[j].scanned_at, groupBy, tz) = k})
    IN SortEntries({[date |-> k, count |-> count(k)] : k \in keys})

\* req.query.period of a request without the parameter, or with an empty one.
NoPeriod == ""

\* req.query.period || '7d' : the period of a read without the parameter.
PeriodOrDefault(period) == IF period = NoPeriod THEN "7d" ELSE period

\* GET /api/analytics/scans for company c at hour t: the data of the response.
ScansOverTime(scanRows, c, period, t, tz) ==
    groupScans(ScansQuery(scanRows, c, getStartDate(PeriodOrDefault(period), t)),
               getGroupBy(PeriodOrDefault(period)), tz)


\* The period values of the reads under check: the presets, 'all', a value that is
\* no preset, and none.
Periods == DOMAIN PeriodDays \cup {"all", "2w", NoPeriod}

\* The time zones of the server: UTC (the hosted deployment), and two zones of a
\* server run on a developer's machine (npm run dev), in hours ahead of UTC.
TimeZones == {0, 2, -5}

\* The hour of the time-series reads under check, and the hours of the scans in
\* their tables: around the turn of a week, a month and a year, and one scan
\* outside the 30-day window.
SeriesReadHour == HourOf(2024, 1, 3, 12)
SeriesHours ==
    {HourOf(2023, 11, 15, 12), HourOf(2023, 12, 31, 23), HourOf(2024, 1, 1, 0),
     HourOf(2024, 1, 1, 10), HourOf(2024, 1, 2, 10)}

\* The scan tables of the time-series reads: up to MaxSeriesRows rows of company 1
\* in the order of their insertion.
SeriesTables ==
    {tb \in UNION {[1..n -> {ScanRowAt(1, Null, FALSE, t) : t \in SeriesHours}] :
                      n \in 0..MaxSeriesRows} :
        \A i \in 1..(Len(tb) - 1) : tb[i].scanned_at <= tb[i + 1].scanned_at}

\* A time-series request of company 1 for a period, on a scan table, on a server
\* in a time zone.
InitSeries ==
    /\ InitPipeline
    /\ prefs = [u \in Users |-> "true"]
    /\ InitEvents
    /\ call \in {[op |-> "scans", done |-> FALSE, rows |-> tb, period |-> p,
                   tz |-> z, out |-> <<>>] :
                     tb \in SeriesTables, p \in Periods, z \in TimeZones}

\* GET /api/analytics/scans answers.
GetScans ==
    /\ call.op = "scans"
    /\ ~call.done
    /\ call' = [call EXCEPT
                  !.done = TRUE,
                  !.out = ScansOverTime(call.rows, 1, call.period, SeriesReadHour,
                                        call.tz)]
    /\ UNCHANGED <<pipeline, overview, scans, questions, pub, now>>

NextSeries == GetScans

SpecSeries == InitSeries /\ [][NextSeries]_vars

\* ----------------------------------------------------- GET /api/analytics/tod
\* The labels of the buckets, in the order of the object literal.
TodLabels == <<"6-9", "9-12", "12-15", "15-18", "18-21", "21+">>

\* Faulty variant: the early hours counted with the morning.
TodBucketEarly(h) ==
    IF h < 9 THEN "6-9"
    ELSE IF h >= 9 /\ h < 12 THEN "9-12"
    ELSE IF h >= 12 /\ h < 15 THEN "12-15"
    ELSE IF h >= 15 /\ h < 18 THEN "15-18"
    ELSE IF h >= 18 /\ h < 21 THEN "18-21"
    ELSE "21+"

\* The bucket the if-chain of the handler increments for hour_of_day h.
TodBucket(h) ==
    IF h >= 6 /\ h < 9 THEN "6-9"
    ELSE IF h >= 9 /\ h < 12 THEN "9-12"
    ELSE IF h >= 12 /\ h < 15 THEN "12-15"
    ELSE IF h >= 15 /\ h < 18 THEN "15-18"
    ELSE IF h >= 18 /\ h < 21 THEN "18-21"
    ELSE "21+"

\* GET /api/analytics/tod for company c at hour t: the data of the response.
TimeOfDay(scanRows, c, period, t) ==
    LET rows == ScansQuery(scanRows, c, getStartDate(PeriodOrDefault(period), t))
        buckets == [l \in {TodLabels[i] : i \in DOMAIN TodLabels} |->
                      Cardinality({j \in DOMAIN rows : TodBucket(rows[j].hour_of_day) = l})]
        total == buckets["6-9"] + buckets["9-12"] + buckets["12-15"] + buckets["15-18"]
                 + buckets["18-21"] + buckets["21+"]
    IN [i \in DOMAIN TodLabels |->
          [label |-> TodLabels[i],
           count |-> buckets[TodLabels[i]],
           percentage |-> IF total # 0
                          THEN ToFixed1(buckets[TodLabels[i]] * 100, total)
                          ELSE NumberZero]]

\* The scan tables of the time-of-day reads under check: up to MaxTodRows rows, of
\* company 1 at any hour of the day before the read, one four hundred hours
\* earlier (outside the 7-day window), one of company 2.
TodRows ==
    {ScanRowAt(1, Null, FALSE, ReadHour - HoursPerDay + h) : h \in 0..(HoursPerDay - 1)}
    \cup {ScanRowAt(1, Null, FALSE, ReadHour - 400), ScanRowAt(2, Null, FALSE, ReadHour - 1)}

TodTables ==
    {tb \in UNION {[1..n -> TodRows] : n \in 0..MaxTodRows} :
        \A i \in 1..(Len(tb) - 1) : tb[i].scanned_at <= tb[i + 1].scanned_at}

\* A time-of-day request of company 1 for a period, on a scan table.
InitTod ==
    /\ InitPipeline
    /\ prefs = [u \in Users |-> "true"]
    /\ InitEvents
    /\ call \in {[op |-> "tod", done |-> FALSE, rows |-> tb, period |-> p,
                   out |-> <<>>] : tb \in TodTables, p \in {"7d", "all"}}

\* GET /api/analytics/tod answers.
GetTod ==
    /\ call.op = "tod"
    /\ ~call.done
    /\ call' = [call EXCEPT !.done = TRUE,
                            !.out = TimeOfDay(call.rows, 1, call.period, ReadHour)]
    /\ UNCHANGED <<pipeline, overview, scans, questions, pub, now>>

NextTod == GetTod

SpecTod == InitTod /\ [][NextTod]_vars

\* ------------------------------------------------ GET /api/analytics/questions
\* A question text is a sequence of words and blanks: 0 is a blank, n > 0 is a word
\* in lower case, -n the same word written with capitals.  'Why?' is <<-1>> and
\* 'why? ' is <<1, 0>>.
Blank == 0

\* text.toLowerCase()
ToLowerCase(text) == [i \in DOMAIN text |-> IF text[i] < 0 THEN -text[i] ELSE text[i]]

\* text.trim()
RECURSIVE Trim(_)
Trim(text) ==
    IF text = <<>> THEN text
    ELSE IF Head(text) = Blank THEN Trim(Tail(text))
    ELSE IF text[Len(text)] = Blank THEN Trim(SubSeq(text, 1, Len(text) - 1))
    ELSE text

\* q.question_text.toLowerCase().trim()
QuestionKey(text) == Trim(ToLowerCase(text))

\* The word 'constructor'.  grouped is an object literal: grouped['constructor'] is
\* the function it inherits from Object.prototype, so for that key !grouped[key] is
\* false without an entry of its own, and count++ goes to the inherited function.
ConstructorWord == 12
InheritedKeys == {<<ConstructorWord>>}

\* skus(product_name) of the joined item: modelled by the item's id.
ProductName(skuId) == skuId

\* questions.forEach(q => { ... }): the entries of grouped in the order of their
\* insertion, each with its key.
RECURSIVE GroupQuestions(_)
GroupQuestions(rows) ==
    IF rows = <<>> THEN <<>>
    ELSE LET grouped == GroupQuestions(SubSeq(rows, 1, Len(rows) - 1))
             q == rows[Len(rows)]
             key == QuestionKey(q.question_text)
         IN IF \E i \in DOMAIN grouped : grouped[i].key = key
            THEN [i \in DOMAIN grouped |->
                    IF grouped[i].key = key
                    THEN [grouped[i] EXCEPT !.count = @ + 1]
                    ELSE grouped[i]]
            ELSE IF key \in InheritedKeys
            THEN grouped
            ELSE Append(grouped, [key |-> key, question |-> q.question_text,
                                  step |-> q.step_number,
                                  skuName |-> ProductName(q.sku_id), count |-> 1])

\* .sort((a, b) => b.count - a.count): a stable sort, the larger counts first.
RECURSIVE SortByCount(_)
SortByCount(entries) ==
    IF entries = <<>> THEN <<>>
    ELSE LET i == CHOOSE x \in DOMAIN entries :
                      /\ \A y \in DOMAIN entries : entries[y].count <= entries[x].count
                      /\ \A y \in 1..(x - 1) : entries[y].count < entries[x].count
         IN <<entries[i]>>
            \o SortByCount(SubSeq(entries, 1, i - 1) \o SubSeq(entries, i + 1, Len(entries)))

\* .slice(0, limit): up to limit, or all but the last -limit for a negative limit.
Slice0(entries, limit) ==
    IF limit >= 0
    THEN SubSeq(entries, 1, IF limit < Len(entries) THEN limit ELSE Len(entries))
    ELSE SubSeq(entries, 1, Len(entries) + limit)

\* The default of the limit.
DefaultLimit == 10

\* parseInt(req.query.limit) || 10, for a parameter that is absent (or not a
\* number: NaN) or the decimal numeral of value.
ParseLimit(limit) ==
    IF ~limit.given \/ limit.value = 0 THEN DefaultLimit ELSE limit.value

\* GET /api/analytics/questions for company c at hour t: the questions of the response.
TopQuestions(questionRows, c, period, limit, t) ==
    LET rows == QuestionsQuery(questionRows, c, getStartDate(PeriodOrDefault(period), t))
        sorted == Slice0(SortByCount(GroupQuestions(rows)), ParseLimit(limit))
    IN [i \in DOMAIN sorted |->
          [question |-> sorted[i].question, step |-> sorted[i].step,
           skuName |-> sorted[i].skuName, count |-> sorted[i].count]]

\* The question rows of the reads under check: 'Why?', 'why? ', ' how', 'how' and
\* 'constructor' asked of item 1 of company 1 an hour before the read, each at a
\* step of its own; 'why?' asked four hundred hours earlier (outside the 7-day
\* window); 'Why?' asked of the item of company 2.
QuestionRowAt(c, text, step, t) ==
    NewQuestionRow([id |-> c, company_id |-> c], Null, text, step, t)

QuestionRows ==
    {QuestionRowAt(1, <<-1>>, 1, ReadHour - 1), QuestionRowAt(1, <<1, Blank>>, 2, ReadHour - 1),
     QuestionRowAt(1, <<Blank, 2>>, 3, ReadHour - 1), QuestionRowAt(1, <<2>>, 4, ReadHour - 1),
     QuestionRowAt(1, <<ConstructorWord>>, 5, ReadHour - 1),
     QuestionRowAt(1, <<1>>, 6, ReadHour - 400),
     QuestionRowAt(2, <<-1>>, 7, ReadHour - 1)}

\* A table of DefaultLimit + 1 questions of company 1, each with a text of its own.
ManyQuestions ==
    [n \in 1..(DefaultLimit + 1) |-> QuestionRowAt(1, <<n>>, n, ReadHour - 1)]

\* The question tables: up to MaxQuestionRows rows in the order of their insertion,
\* and the table of DefaultLimit + 1 questions.
QuestionTables ==
    {tb \in UNION {[1..n -> QuestionRows] : n \in 0..MaxQuestionRows} :
        \A i \in 1..(Len(tb) - 1) : tb[i].asked_at <= tb[i + 1].asked_at}
    \cup {ManyQuestions}

\* req.query.limit: absent, or a numeral.
LimitInputs ==
    {[given |-> FALSE, value |-> 0]} \cup {[given |-> TRUE, value |-> n] : n \in -1..2}

\* A top-questions request of company 1 for a period and a limit, on a question table.
InitQuestions ==
    /\ InitPipeline
    /\ prefs = [u \in Users |-> "true"]
    /\ InitEvents
    /\ call \in {[op |-> "questions", done |-> FALSE, rows |-> tb, period |-> p,
                   limit |-> l, out |-> <<>>] :
                     tb \in QuestionTables, p \in {"7d", "all"}, l \in LimitInputs}

\* GET /api/analytics/questions answers.
GetQuestions ==
    /\ call.op = "questions"
    /\ ~call.done
    /\ call' = [call EXCEPT
                  !.done = TRUE,
                  !.out = TopQuestions(call.rows, 1, call.period, call.limit, ReadHour)]
    /\ UNCHANGED <<pipeline, overview, scans, questions, pub, now>>

NextQuestions == GetQuestions

SpecQuestions == InitQuestions /\ [][NextQuestions]_vars

\* --------------------------------------------- GET /api/analytics/satisfaction
\* The stars of the breakdown, in the order of the response.
StarsOrder == <<5, 4, 3, 2, 1>>

\* GET /api/analytics/satisfaction for company c at hour t: the body of the
\* response.  breakdown has the keys 1 to 5; breakdown[r.rating]++ for another
\* rating makes a property that the response does not list.
Satisfaction(scanRows, c, period, t) ==
    LET all == ScansQuery(scanRows, c, getStartDate(PeriodOrDefault(period), t))
        ratings == SelectSeq(all, LAMBDA row : row.rating # Null)
        breakdown == [s \in 1..5 |->
                        Cardinality({j \in DOMAIN ratings : ratings[j].rating = s})]
        total == Len(ratings)
    IN [avg |-> IF total # 0 THEN ToFixed1(SumRatings(ratings), total)
                ELSE [type |-> "null", tenths |-> 0],
        total |-> total,
        breakdown |-> [i \in DOMAIN StarsOrder |->
                         [stars |-> StarsOrder[i],
                          count |-> breakdown[StarsOrder[i]],
                          percentage |-> IF total # 0
                                         THEN ToFixed1(breakdown[StarsOrder[i]] * 100, total)
                                         ELSE NumberZero]]]

\* The ratings a public completion record may carry: none, 0, a star count, and a
\* number that is no star count.
RatingInputs == {Null, 0, 3, 7}

\* One item of company 1 and the public scan and completion records for its code,
\* with any rating.
NextRating ==
    \/ CheckSkuLimit(1, 1, ScanBody)
    \/ CheckDuplicate(1)
    \/ InsertSku(1)
    \/ ParseSteps(1)
    \/ GenerateVideo(1)
    \/ GenerateQRCode(1)
    \/ CommitLive(1)
    \/ ReadPrefs(1)
    \/ SendQRReadyEmail(1)
    \/ MarkError(1)
    \/ DeleteSku(1, 1)
    \/ \E p \in PubIds, k \in PubCodes, s \in PubSessions : PostScanLookup(p, k, s)
    \/ \E p \in PubIds : PostScanInsert(p)
    \/ \E p \in PubIds, k \in PubCodes, s \in PubSessions, n \in StepInputs,
          g \in RatingInputs : PostCompleteLookup(p, k, s, n, g)
    \/ \E p \in PubIds : PostCompleteUpdate(p)
    \/ Tick

SpecRating == Init /\ [][NextRating]_vars

\* --------------------------------------------- the period of an analytics read
\* The period values of the requests under check, and the hours of the reads.
PeriodInputs == Periods \cup InheritedNames
ReadHours == {SeriesReadHour + h : h \in 0..MaxReadHours}

\* const period = req.query.period || '7d'; const startDate = getStartDate(period)
\* of GET /overview, /scans, /tod, /satisfaction and /questions at hour t, up to the
\* query: the window of the read, or the 500 of the handler's catch.
ReadWindow(period, t) ==
    LET startDate == getStartDate(PeriodOrDefault(period), t)
    IN IF startDate.throws
       THEN [code |-> 500, filter |-> FALSE, date |-> 0]
       ELSE [code |-> 200, filter |-> startDate.filter, date |-> startDate.date]

\* An analytics read with a period, at an hour.
InitPeriod ==
    /\ InitPipeline
    /\ prefs = [u \in Users |-> "true"]
    /\ InitEvents
    /\ call \in {[op |-> "period", done |-> FALSE, period |-> p, hour |-> t,
                   out |-> [code |-> 0, filter |-> FALSE, date |-> 0]] :
                     p \in PeriodInputs, t \in ReadHours}

\* The read computes its window.
GetWindow ==
    /\ call.op = "period"
    /\ ~call.done
    /\ call' = [call EXCEPT !.done = TRUE, !.out = ReadWindow(call.period, call.hour)]
    /\ UNCHANGED <<pipeline, overview, scans, questions, pub, now>>

NextPeriod == GetWindow

SpecPeriod == InitPeriod /\ [][NextPeriod]_vars

\* ------------------------------------------- the pipeline on a failing storage
\* A storage call that fails returns {error} (the create handler reads skuError from
\* its insert); processSkuGeneration and the .catch of the handler do not look at it.

\* 4. the update fails: nothing is written, the task goes on to step 5.
CommitLiveFails(r) ==
    /\ task[r].pc = "commit"
    /\ task' = [task EXCEPT ![r] = [@ EXCEPT !.pc = "prefs"]]
    /\ UNCHANGED <<analytics, sku_limit, skus, req, prefs, outbox, lastPoll, maxInFlight>>

\* 5. the read of the preference fails: prefs.data is null, the email is sent.
ReadPrefsFails(r) ==
    /\ task[r].pc = "prefs"
    /\ task' = [task EXCEPT ![r] = [@ EXCEPT !.pc = "email"]]
    /\ UNCHANGED <<analytics, sku_limit, skus, req, prefs, outbox, lastPoll, maxInFlight>>

\* The update of the .catch fails: nothing is written, .then(() => {}) ends the task.
MarkErrorFails(r) ==
    /\ task[r].pc = "catch"
    /\ task' = [task EXCEPT ![r] = [@ EXCEPT !.pc = "end"]]
    /\ UNCHANGED <<analytics, sku_limit, skus, req, prefs, outbox, lastPoll, maxInFlight>>

\* The steps of the background task of request r: each call it awaits returns or fails.
TaskStep(r) ==
    \/ ParseSteps(r)
    \/ GenerateVideo(r)
    \/ GenerateQRCode(r)
    \/ CommitLive(r)
    \/ CommitLiveFails(r)
    \/ ReadPrefs(r)
    \/ ReadPrefsFails(r)
    \/ SendQRReadyEmail(r)
    \/ MarkError(r)
    \/ MarkErrorFails(r)

\* The steps of the create handler of request r after the middleware.
HandlerStep(r) == CheckDuplicate(r) \/ InsertSku(r)

\* The create requests and the deletions, with storage calls that may fail.
NextFaults ==
    \/ \E r \in ScanIds, c \in Companies, b \in Bodies : CheckSkuLimit(r, c, b)
    \/ \E r \in ScanIds : CheckDuplicate(r)
    \/ \E r \in ScanIds : InsertSku(r)
    \/ \E r \in ScanIds : ParseSteps(r)
    \/ \E r \in ScanIds : GenerateVideo(r)
    \/ \E r \in ScanIds : GenerateQRCode(r)
    \/ \E r \in ScanIds : CommitLive(r)
    \/ \E r \in ScanIds : CommitLiveFails(r)
    \/ \E r \in ScanIds : ReadPrefs(r)
    \/ \E r \in ScanIds : ReadPrefsFails(r)
    \/ \E r \in ScanIds : SendQRReadyEmail(r)
    \/ \E r \in ScanIds : MarkError(r)
    \/ \E r \in ScanIds : MarkErrorFails(r)
    \/ \E c \in Companies, i \in ScanIds : DeleteSku(c, i)

\* Node runs every continuation whose awaited call has settled, and every call of
\* the pipeline settles (returns or fails): no handler and no task waits forever.
SpecFaults ==
    /\ Init
    /\ [][NextFaults]_vars
    /\ \A r \in ScanIds : WF_vars(HandlerStep(r)) /\ WF_vars(TaskStep(r))

\* ----------------------------- GET /api/analytics/overview, one step per query
\* The periods of the overview requests that run together with the public records.
OverviewPeriods == {"7d", "all"}

\* The request of company c arrives; the first query counts the company's scans of
\* the window.
OverviewTotal(c, period) ==
    /\ overview.pc = "idle"
    /\ LET startDate == getStartDate(PeriodOrDefault(period), now)
       IN overview' = [IdleOverview EXCEPT
                          !.pc = "completed", !.company = c, !.period = period,
                          !.startDate = startDate,
                          !.totalScans = Len(ScansQuery(scans, c, startDate))]
    /\ UNCHANGED <<pipeline, scans, questions, pub, now, call>>

\* The second query counts the completed scans.
OverviewCompleted ==
    /\ overview.pc = "completed"
    /\ overview' = [overview EXCEPT
                      !.pc = "ratings",
                      !.completedScans =
                          Len(SelectSeq(ScansQuery(scans, overview.company, overview.startDate),
                                        LAMBDA row : row.completed))]
    /\ UNCHANGED <<pipeline, scans, questions, pub, now, call>>

\* The third query selects the ratings; their average.
OverviewRatings ==
    /\ overview.pc = "ratings"
    /\ LET ratings == SelectSeq(ScansQuery(scans, overview.company, overview.startDate),
                                LAMBDA row : row.rating # Null)
       IN overview' = [overview EXCEPT
                         !.pc = "sessions",
                         !.avgRating = IF Len(ratings) # 0
                                       THEN ToFixed1(SumRatings(ratings), Len(ratings))
                                       ELSE [type |-> "null", tenths |-> 0]]
    /\ UNCHANGED <<pipeline, scans, questions, pub, now, call>>

\* The fourth query selects the session ids; the repeat rate.
OverviewSessions ==
    /\ overview.pc = "sessions"
    /\ LET sessionCounts ==
               SessionCounts(ScansQuery(scans, overview.company, overview.startDate))
           repeatSessions == Cardinality(RepeatSessions(sessionCounts))
           totalSessions == Cardinality(DOMAIN sessionCounts)
       IN overview' = [overview EXCEPT
                         !.pc = "active",
                         !.repeatRate = IF totalSessions # 0
                                        THEN ToFixed1(repeatSessions * 100, totalSessions)
                                        ELSE NumberZero]
    /\ UNCHANGED <<pipeline, scans, questions, pub, now, call>>

\* The fifth query counts the live SKUs; the response.
OverviewActive ==
    /\ overview.pc = "active"
    /\ overview' = [overview EXCEPT
                      !.pc = "done",
                      !.resp = [code |-> 200,
                                period |-> overview.period,
                                totalScans |-> overview.totalScans,
                                completedScans |-> overview.completedScans,
                                completionRate |->
                                    IF overview.totalScans # 0
                                    THEN ToFixed1(overview.completedScans * 100,
                                                  overview.totalScans)
                                    ELSE NumberZero,
                                avgRating |-> overview.avgRating,
                                repeatRate |-> overview.repeatRate,
                                activeSKUs |-> LiveCount(skus, overview.company)]]
    /\ UNCHANGED <<pipeline, scans, questions, pub, now, call>>

\* One item of company 1, the public scan and completion records for its code, and
\* an overview request of the company.
NextRace ==
    \/ CheckSkuLimit(1, 1, ScanBody)
    \/ CheckDuplicate(1)
    \/ InsertSku(1)
    \/ ParseSteps(1)
    \/ GenerateVideo(1)
    \/ GenerateQRCode(1)
    \/ CommitLive(1)
    \/ ReadPrefs(1)
    \/ SendQRReadyEmail(1)
    \/ MarkError(1)
    \/ DeleteSku(1, 1)
    \/ \E p \in PubIds, k \in PubCodes, s \in PubSessions : PostScanLookup(p, k, s)
    \/ \E p \in PubIds : PostScanInsert(p)
    \/ \E p \in PubIds, k \in PubCodes, s \in PubSessions, n \in StepInputs,
          g \in ScanRatings : PostCompleteLookup(p, k, s, n, g)
    \/ \E p \in PubIds : PostCompleteUpdate(p)
    \/ \E period \in OverviewPeriods : OverviewTotal(1, period)
    \/ OverviewCompleted
    \/ OverviewRatings
    \/ OverviewSessions
    \/ OverviewActive
    \/ Tick

SpecRace == Init /\ [][NextRace]_vars

\* ---------------------------------------------------------------- claims
\* The derived columns of a row.
DerivedSet(row) ==
    /\ row.video_url # Null
    /\ row.video_duration # Null
    /\ row.step_count # Null
    /\ row.qr_code_url # Null
    /\ row.qr_target_url # Null

DerivedUnset(row) ==
    /\ row.video_url = Null
    /\ row.video_duration = Null
    /\ row.step_count = Null
    /\ row.qr_code_url = Null
    /\ row.qr_target_url = Null

Stages == {"parse", "video", "qr"}

\* C1: every stored item has status processing, live or error, and its derived
\* columns are all set if and only if the status is live, and all unset when it is
\* processing or error.
C1_DerivedConsistent ==
    \A i \in DOMAIN skus :
        /\ skus[i].status \in {"processing", "live", "error"}
        /\ skus[i].status = "live" <=> DerivedSet(skus[i])
        /\ skus[i].status \in {"processing", "error"} => DerivedUnset(skus[i])

\* C2: once the delivery of the ready notification has failed for an item that was
\* committed as live, the item is still live with its derived columns set.
C2_NotifyFailureKeepsLive ==
    \A r \in Slots :
        task[r].threw = "email" /\ r \in DOMAIN skus =>
            skus[r].status = "live" /\ DerivedSet(skus[r])

\* C3: live and error are terminal: no step changes the status of a stored item
\* whose status is live or error (the item may only be deleted).
C3_TerminalStatus ==
    [][\A i \in DOMAIN skus :
          skus[i].status \in {"live", "error"} /\ i \in DOMAIN skus' =>
              skus'[i].status = skus[i].status]_vars

\* C4: when parseSteps, generateVideo or generateQRCode has thrown for an item, the
\* task runs no further stage, the item (while stored) is never live and has no
\* derived column, its status is error once the catch handler's update is done, and
\* no ready notification is delivered for it.
C4_StageFailure ==
    \A r \in Slots :
        task[r].threw \in Stages =>
            /\ task[r].pc \in {"catch", "end"}
            /\ r \in DOMAIN skus =>
                  /\ skus[r].status # "live"
                  /\ DerivedUnset(skus[r])
                  /\ task[r].pc = "end" => skus[r].status = "error"
            /\ \A m \in outbox : m.qrCodeUrl # generateQRCode(r, req[r].skuCode).qrCodeUrl

\* C4 witness: a stage has thrown, the catch handler has run, the item is in error.
C4_Witness ==
    \E r \in Slots :
        /\ task[r].threw \in Stages
        /\ task[r].pc = "end"
        /\ r \in DOMAIN skus
        /\ skus[r].status = "error"

\* C5: the step that stores an item answers 202 with status processing while no
\* stage of the item's task has run (the task is at its first stage afterwards), and
\* a response, once sent, never changes, whatever the task does later.
C5_AcceptedBeforeGeneration ==
    [][\A r \in Slots :
          /\ (r \notin DOMAIN skus /\ r \in DOMAIN skus') =>
                /\ req'[r].pc = "done"
                /\ req'[r].resp.code = 202
                /\ req'[r].resp.status = "processing"
                /\ req'[r].resp.id = r
                /\ skus'[r].status = "processing"
                /\ task[r].pc = "none"
                /\ task'[r].pc = "parse"
          /\ req'[r].resp.code = 202 => req'[r].resp.status = "processing"
          /\ req[r].pc = "done" => req'[r] = req[r]]_vars

\* C5 witness: two accepted requests with the same kind of response, one whose
\* item is live by now and one whose item is in error.
C5_Witness ==
    \E r, q \in Slots :
        /\ req[r].resp.code = 202 /\ req[r].resp.status = "processing"
        /\ req[q].resp.code = 202 /\ req[q].resp.status = "processing"
        /\ r \in DOMAIN skus /\ skus[r].status = "live"
        /\ q \in DOMAIN skus /\ skus[q].status = "error"

\* C6: a create request that passed the quota guard and the validation is answered
\* 409, and stores nothing, whenever an item of its company has its code at the
\* moment it is answered; otherwise (also when another company has the code) it is
\* answered 202 and its item is stored.
C6_DuplicateAnswered409 ==
    [][\A r \in Slots :
          (/\ req[r].pc \in {"handler", "insert"}
           /\ req'[r].pc = "done"
           /\ req[r].skuCode # Null /\ req[r].productName /\ req[r].file) =>
              IF \E i \in DOMAIN skus : /\ skus[i].company_id = req[r].company
                                        /\ skus[i].sku_code = req[r].skuCode
              THEN req'[r].resp.code = 409 /\ skus' = skus
              ELSE req'[r].resp.code = 202 /\ r \in DOMAIN skus']_vars

\* C7: no two stored items have the same company and code.
C7_UniqueCode ==
    \A i, j \in DOMAIN skus :
        i # j => ~(/\ skus[i].company_id = skus[j].company_id
                   /\ skus[i].sku_code = skus[j].sku_code)

\* C7 witness: two requests of one company with one code both passed the duplicate
\* check; one stored its item, the insert of the other was refused.
C7_Witness ==
    \E r, q \in Slots :
        /\ r # q
        /\ req[r].resp.code = 500
        /\ req[q].resp.code = 202
        /\ req[r].company = req[q].company
        /\ req[r].skuCode = req[q].skuCode
        /\ q \in DOMAIN skus

\* C8: the quota guard lets a request pass when the company's limit is -1, whatever
\* the count; otherwise it answers 403 exactly when the number of the company's
\* live items is at least the limit, and the 403 carries that number and the limit;
\* items in processing or error are not counted.
C8_QuotaDecision ==
    [][\A r \in Slots :
          (req[r].pc = "idle" /\ req'[r].pc # "idle") =>
              LET c == req'[r].company
                  L == sku_limit[c]
                  n == Cardinality({i \in DOMAIN skus : /\ skus[i].company_id = c
                                                        /\ skus[i].status = "live"})
                  denied == req'[r].pc = "done" /\ req'[r].resp.code = 403
              IN /\ L = -1 => ~denied
                 /\ L # -1 => (denied <=> n >= L)
                 /\ denied => req'[r].resp.currentCount = n /\ req'[r].resp.limit = L
                 /\ ~denied => req'[r].pc = "handler"]_vars

\* C8 witness: limit 2, two live items, the third request is denied with
\* currentCount 2 and limit 2.
C8_Witness ==
    \E r \in Slots :
        /\ req[r].pc = "done"
        /\ req[r].resp = [code |-> 403, currentCount |-> 2, limit |-> 2]
        /\ sku_limit[req[r].company] = 2

C10_StatusOwnership ==
    [][lastPoll' # lastPoll =>
          LET c == lastPoll'.company
              i == lastPoll'.id
              resp == lastPoll'.resp
          IN IF i \in DOMAIN skus /\ skus[i].company_id = c
             THEN resp.code = 200 /\ resp.status = skus[i].status
             ELSE /\ resp = [code |-> 404, error |-> "SKU not found"]
                  /\ resp = GetStatus(skus, 0, c)]_vars

\* C10 witness: the last poll named a stored item of another company and was
\* answered 404.
C10_Witness ==
    /\ lastPoll.id \in DOMAIN skus
    /\ skus[lastPoll.id].company_id # lastPoll.company
    /\ lastPoll.company \in Companies
    /\ lastPoll.resp.code = 404

\* C11: a ready notification is delivered only for an item that is stored at that
\* moment with status live and with the code image reference and the target URL
\* the notification carries.
C11_NotifyOnlyLive ==
    [][\A m \in outbox' \ outbox :
          \E i \in DOMAIN skus :
              /\ skus[i].status = "live"
              /\ skus[i].qr_code_url = m.qrCodeUrl
              /\ skus[i].qr_target_url = m.qrTargetUrl]_vars

\* The ready notifications delivered for the item of request r.
MsgFor(r) == {m \in outbox : m.qrCodeUrl = generateQRCode(r, req[r].skuCode).qrCodeUrl}

\* The position of a task in processSkuGeneration.
StageRank(pc) ==
    CASE pc = "none" -> 0 [] pc = "parse" -> 1 [] pc = "video" -> 2 [] pc = "qr" -> 3
      [] pc = "commit" -> 4 [] pc = "prefs" -> 5 [] pc = "email" -> 6
      [] pc = "catch" -> 7 [] pc = "end" -> 8

\* C12: after the commit the task reads the owner's qr_ready preference as it is at
\* that moment, and goes on to deliver the ready notification if and only if the
\* preference is true or the user has no preference row (it ends without one when
\* the preference is false); a notification is delivered only by that delivery
\* step (which puts exactly one message in the outbox unless sendQRReadyEmail
\* rejects), and no task comes back to a step it has left, so that an item never
\* gets a second notification.
C12_NotifyByPreference ==
    [][\A r \in Slots :
          /\ (task[r].pc = "prefs" /\ task'[r].pc # "prefs") =>
                /\ prefs[req[r].company] \in {"true", "norow"} => task'[r].pc = "email"
                /\ prefs[req[r].company] = "false" =>
                      task'[r].pc = "end" /\ MsgFor(r)' = {}
          /\ task'[r].pc = "prefs" => task[r].pc \in {"commit", "prefs"}
          /\ task'[r].pc = "email" => task[r].pc \in {"prefs", "email"} /\ MsgFor(r) = {}
          /\ StageRank(task'[r].pc) >= StageRank(task[r].pc)
          /\ MsgFor(r)' # MsgFor(r) =>
                /\ task[r].pc = "email" /\ task'[r].pc = "end"
                /\ MsgFor(r) = {} /\ Cardinality(MsgFor(r)') = 1
                /\ Cardinality(outbox') = Cardinality(outbox) + 1
          /\ (task[r].pc = "email" /\ task'[r].pc = "end") =>
                Cardinality(MsgFor(r)') = 1]_vars

\* C12 witness: two items of one user, both committed and their tasks finished
\* without a failure: the first got its notification, the second none, because the
\* user's preference was false when the second task read it.
C12_Witness ==
    \E r, q \in Slots :
        /\ req[r].company = req[q].company
        /\ task[r].pc = "end" /\ task[r].threw = "none" /\ MsgFor(r) # {}
        /\ task[q].pc = "end" /\ task[q].threw = "none" /\ MsgFor(q) = {}
        /\ prefs[req[q].company] = "false"

\* The live items that have code k.
LiveWithCode(k) == {i \in DOMAIN skus : skus[i].sku_code = k /\ skus[i].status = "live"}

\* A step of public request p that starts a request of the given kind (the handler
\* runs up to its lookup).
Arrives(p, kind) ==
    /\ pub[p].pc \in {"idle", "done"}
    /\ pub'[p] # pub[p]
    /\ pub'[p].kind = kind

\* A step of public request p that ends a request of the given kind after its write.
Writes(p, kind) ==
    /\ pub[p].kind = kind
    /\ pub[p].pc = "write"
    /\ pub'[p].pc = "done"

\* C13: a public scan record is answered 404 only if no live item has its code; when
\* a live item has the code (also when another company has an item with the same
\* code) the request resolves to such an item and appends exactly one scan row with
\* that item, the item's company and the session id of the request ('anonymous' when
\* it has none); an item in processing or error is never resolved, and nothing is
\* appended for a request that is answered 400 or 404.
C13_ScanRecorded ==
    [][\A p \in PubIds :
          /\ Arrives(p, "scan") =>
                /\ scans' = scans
                /\ pub'[p].resp.code = 404 => LiveWithCode(pub'[p].skuCode) = {}
                /\ LiveWithCode(pub'[p].skuCode) # {} =>
                      /\ pub'[p].pc = "write"
                      /\ pub'[p].sku.id \in LiveWithCode(pub'[p].skuCode)
                /\ LiveWithCode(pub'[p].skuCode) = {} =>
                      pub'[p].pc = "done" /\ pub'[p].resp.code \in {400, 404}
          /\ Writes(p, "scan") =>
                /\ pub'[p].resp.code = 200
                /\ IF pub[p].sku.id \in DOMAIN skus
                   THEN /\ Len(scans') = Len(scans) + 1
                        /\ SubSeq(scans', 1, Len(scans)) = scans
                        /\ scans'[Len(scans')].sku_id = pub[p].sku.id
                        /\ scans'[Len(scans')].company_id = skus[pub[p].sku.id].company_id
                        /\ scans'[Len(scans')].session_id =
                              (IF pub[p].sessionId = Null THEN Anonymous
                               ELSE pub[p].sessionId)
                   ELSE scans' = scans]_vars

\* The scan rows of session s whose item has code k.
ScansOfCodeAndSession(k, s) ==
    {j \in DOMAIN scans : /\ scans[j].sku_id \in DOMAIN skus
                          /\ skus[scans[j].sku_id].sku_code = k
                          /\ scans[j].session_id = s}

\* C14: a scan-complete event never changes the number of scan rows; when scan rows
\* of the event's item (the item with its code) and session exist, the event sets
\* completed, completion step and rating on one of them, a row with the latest
\* timestamp among the rows of its item and session, and leaves every other row as
\* it is; when there is none it changes nothing, and it answers success without
\* error whenever an item has its code.
C14_CompleteUpdatesLatest ==
    [][\A p \in PubIds :
          /\ Arrives(p, "complete") =>
                /\ scans' = scans
                /\ (\E i \in DOMAIN skus : skus[i].sku_code = pub'[p].skuCode) =>
                      pub'[p].pc = "write"
          /\ Writes(p, "complete") =>
                /\ Len(scans') = Len(scans)
                /\ pub'[p].resp = [code |-> 200, success |-> TRUE]
                /\ IF ScansOfCodeAndSession(pub[p].skuCode, pub[p].sessionId) = {}
                   THEN scans' = scans
                   ELSE \E j \in ScansOfCodeAndSession(pub[p].skuCode, pub[p].sessionId) :
                           /\ \A l \in DOMAIN scans :
                                 (/\ scans[l].sku_id = scans[j].sku_id
                                  /\ scans[l].session_id = scans[j].session_id) =>
                                     scans[l].scanned_at <= scans[j].scanned_at
                           /\ scans' = [scans EXCEPT ![j] =
                                          [@ EXCEPT !.completed = TRUE,
                                                    !.completion_step = pub[p].completionStep,
                                                    !.rating = OrNull(pub[p].rating)]]]_vars

\* C15: on the success path with N >= 1 extracted steps, the committed step count
\* is N and the committed duration is N * 38, a positive integer; of two extraction
\* results the one with more steps gets the strictly longer duration.
C15_DurationIncreasing ==
    call.op = "generate" /\ call.done =>
        /\ \A i \in {1, 2} :
              Len(call.steps[i]) >= 1 =>
                  /\ call.out[i].status = "live"
                  /\ call.out[i].step_count = Len(call.steps[i])
                  /\ call.out[i].video_duration = Len(call.steps[i]) * 38
                  /\ call.out[i].video_duration \in Nat \ {0}
        /\ \A i, j \in {1, 2} :
              (1 <= Len(call.steps[i]) /\ Len(call.steps[i]) < Len(call.steps[j])) =>
                  call.out[i].video_duration < call.out[j].video_duration

\* C15 witness: results of 1 and 2 steps committed with 38 and 76 seconds.
C15_Witness ==
    /\ call.op = "generate" /\ call.done
    /\ Len(call.steps[1]) = 1 /\ call.out[1].video_duration = 38
    /\ Len(call.steps[2]) = 2 /\ call.out[2].video_duration = 76
    /\ call.out[2].step_count = 2

FailedTwin(r) ==
    {i \in DOMAIN skus : /\ skus[i].status = "error"
                         /\ skus[i].company_id = req[r].company
                         /\ skus[i].sku_code = req[r].skuCode}

ValidBody(r) == req[r].skuCode # Null /\ req[r].productName /\ req[r].file

\* C17: a failed item is never retried: the step that puts an item in error ends
\* its task, a task that has ended takes no further step, and an item in error is
\* never changed again (only deleted).  While the failed item is stored, a
\* submission with its code in its company that reaches the duplicate check is
\* answered 409, and no request is accepted with that code (nothing is stored, no
\* task is started).  When no item of the company has the code (the failed item
\* was deleted), the submission passes the duplicate check, and the insert stores a
\* new item in processing and starts a task of its own.
C17_NoRetry ==
    [][\A r \in Slots :
          /\ task[r].pc = "end" => task'[r] = task[r]
          /\ (r \in DOMAIN skus /\ r \in DOMAIN skus' /\ skus'[r].status = "error") =>
                /\ task'[r].pc = "end"
                /\ skus[r].status = "error" => skus'[r] = skus[r]
          /\ (req[r].pc = "handler" /\ req'[r].pc # "handler" /\ ValidBody(r)) =>
                IF FailedTwin(r) # {}
                THEN /\ req'[r].pc = "done" /\ req'[r].resp.code = 409
                     /\ skus' = skus /\ task' = task
                ELSE (\A i \in DOMAIN skus : ~(/\ skus[i].company_id = req[r].company
                                               /\ skus[i].sku_code = req[r].skuCode))
                        => req'[r].pc = "insert"
          /\ (req[r].pc = "insert" /\ req'[r].pc = "done") =>
                IF FailedTwin(r) # {}
                THEN req'[r].resp.code # 202 /\ skus' = skus /\ task' = task
                ELSE (\A i \in DOMAIN skus : ~(/\ skus[i].company_id = req[r].company
                                               /\ skus[i].sku_code = req[r].skuCode))
                        => /\ req'[r].resp.code = 202
                           /\ r \notin DOMAIN skus /\ r \in DOMAIN skus'
                           /\ skus'[r].status = "processing"
                           /\ task[r].pc = "none" /\ task'[r].pc = "parse"]_vars

\* C17 witness: the item of request r failed and was deleted afterwards; request p
\* with its company and code was answered 409 and has no item; request q with the
\* same company and code came after the deletion, was accepted, and its own task
\* has committed its item.
C17_Witness ==
    \E r, p, q \in Slots :
        /\ r < p /\ p < q
        /\ task[r].threw \in Stages /\ task[r].pc = "end" /\ r \notin DOMAIN skus
        /\ req[p].company = req[r].company /\ req[p].skuCode = req[r].skuCode
        /\ req[p].resp.code = 409 /\ task[p].pc = "none"
        /\ req[q].company = req[r].company /\ req[q].skuCode = req[r].skuCode
        /\ req[q].resp.code = 202 /\ q \in DOMAIN skus
        /\ skus[q].status = "live" /\ task[q].pc \in {"prefs", "email", "end"}

\* The rows of the table of the overview request under check that belong to the
\* requesting company and lie in the window of the request.
WindowRows ==
    {j \in DOMAIN call.rows :
        /\ call.rows[j].company_id = call.company
        /\ call.period = "7d" => call.rows[j].scanned_at >= ReadHour - 7 * 24}
WindowSessions == {call.rows[j].session_id : j \in WindowRows}
WindowRepeats ==
    {s \in WindowSessions :
        Cardinality({j \in WindowRows : call.rows[j].session_id = s}) > 1}
WindowCompleted == {j \in WindowRows : call.rows[j].completed}

\* A reported rate is the percentage num / den with one decimal (a string of
\* JavaScript's toFixed(1)): it is within 0.05 of 100 * num / den.
IsRate(rate, num, den) ==
    /\ rate.type = "string"
    /\ 2 * (rate.tenths * den - 1000 * num) <= den
    /\ 2 * (1000 * num - rate.tenths * den) <= den

C19_EventsReferenceItems ==
    /\ \A j \in DOMAIN scans : scans[j].sku_id \in DOMAIN skus
    /\ \A j \in DOMAIN questions : questions[j].sku_id \in DOMAIN skus

\* C19 witness: a public request has resolved an item that was deleted before the
\* request's insert, while a scan of another, stored item is in the table.
C19_Witness ==
    \E p \in PubIds :
        /\ pub[p].kind \in {"scan", "question"}
        /\ pub[p].pc = "write"
        /\ pub[p].sku.id \notin DOMAIN skus
        /\ scans # <<>>

\* The stored items of company c, as the store would hold them if the other
\* companies had none.
OwnSkus(c) == [i \in {x \in DOMAIN skus : skus[x].company_id = c} |-> skus[i]]
OwnRows(rows, c) == SelectSeq(rows, LAMBDA row : row.company_id = c)

\* The SKU a public request of the given kind with code k resolves, over the SKU
\* rows given.
Resolved(rows, kind, k) ==
    IF kind = "scan" THEN FoundSku(rows, LiveSkuByCode(rows, k))
    ELSE FoundSku(rows, SkuByCode(rows, k))

\* C18: analytics are isolated per company.  Every scan and question row carries
\* the company of the item it references; what an analytics read of a company
\* selects (the scans and questions of its queries in any window, the live items of
\* the overview) is what it selects from the company's own rows alone; and a public
\* request that records or updates a row of a company when only that company's
\* items are in the store (a scan or a question that resolves to an item of the
\* company, a completion that resolves to one with a scan row of its session) does
\* the same whatever the other companies own, so that the rows recorded for a
\* company, and its reads, are the same in two runs that differ only in the other
\* companies' items and events.
C18_CompanyIsolation ==
    [][/\ \A j \in DOMAIN scans :
             scans[j].sku_id \in DOMAIN skus =>
                 scans[j].company_id = skus[scans[j].sku_id].company_id
       /\ \A j \in DOMAIN questions :
             questions[j].sku_id \in DOMAIN skus =>
                 questions[j].company_id = skus[questions[j].sku_id].company_id
       /\ \A c \in Companies, period \in DOMAIN PeriodDays \cup {"all"} :
             /\ ScansQuery(scans, c, getStartDate(period, now))
                   = ScansQuery(OwnRows(scans, c), c, getStartDate(period, now))
             /\ QuestionsQuery(questions, c, getStartDate(period, now))
                   = QuestionsQuery(OwnRows(questions, c), c, getStartDate(period, now))
             /\ Overview(scans, skus, c, period, now)
                   = Overview(OwnRows(scans, c), OwnSkus(c), c, period, now)
       /\ \A p \in PubIds, c \in Companies, kind \in {"scan", "complete", "question"} :
             (/\ Arrives(p, kind)
              /\ pub'[p].resp.code # 400
              /\ Resolved(OwnSkus(c), kind, pub'[p].skuCode).id # Null
              /\ kind = "complete" =>
                    MatchingScans(scans, Resolved(OwnSkus(c), kind, pub'[p].skuCode).id,
                                  pub'[p].sessionId) # {}) =>
                 /\ pub'[p].pc = "write"
                 /\ pub'[p].sku = Resolved(OwnSkus(c), kind, pub'[p].skuCode)]_vars

\* The day number of a bucket key 'YYYY-MM-DD'.
DayNumber(key) == HourOf(key[1], key[2], key[3], 0) \div 24

\* The scans of the time-series request under check that lie in its window (no
\* period means 7d), and the length of the window in days (0: unbounded).
SeriesWindowDays ==
    CASE call.period \in {"7d", ""} -> 7 [] call.period = "30d" -> 30
      [] call.period = "3m" -> 90 [] call.period = "6m" -> 180
      [] call.period = "1y" -> 365 [] OTHER -> 0
SeriesEvents ==
    {j \in DOMAIN call.rows :
        SeriesWindowDays # 0 =>
            call.rows[j].scanned_at >= SeriesReadHour - SeriesWindowDays * 24}

\* The days an event may be said to be on: its UTC day, its day on the server's clock.
EventDays(j) ==
    {call.rows[j].scanned_at \div 24, (call.rows[j].scanned_at + call.tz) \div 24}

\* The bucket of event j in a response: its position, by the rule of the window.
InBucket(j, key) ==
    IF SeriesWindowDays \in {7, 30}
    THEN Len(key) = 3 /\ DayNumber(key) \in EventDays(j)
    ELSE IF SeriesWindowDays \in {90, 180}
    THEN /\ Len(key) = 3
         /\ DayOfWeek(DayNumber(key)) = 0
         /\ \E d \in EventDays(j) : DayNumber(key) <= d /\ d < DayNumber(key) + 7
    ELSE /\ Len(key) = 2
         /\ \E d \in EventDays(j) : key = <<DateOf(d).year, DateOf(d).month>>

RECURSIVE SumCounts(_)
SumCounts(entries) ==
    IF entries = <<>> THEN 0 ELSE Head(entries).count + SumCounts(Tail(entries))

\* C21: the time series buckets the scans of the window by day for the 7- and 30-day
\* windows, by week for the 90- and 180-day windows (the key is the Sunday on or
\* before the event's date) and by month for the 365-day and unbounded windows; every
\* event is counted in a bucket of its day, week or month, the counts sum to the
\* number of events, and the keys are distinct and in ascending order.
C21_TimeSeriesBuckets ==
    call.op = "scans" /\ call.done =>
        /\ SumCounts(call.out) = Cardinality(SeriesEvents)
        /\ \A i \in DOMAIN call.out : call.out[i].count >= 1
        /\ \A i, l \in DOMAIN call.out :
              i < l => KeyBefore(call.out[i].date, call.out[l].date)
        /\ \A j \in SeriesEvents : \E i \in DOMAIN call.out : InBucket(j, call.out[i].date)
        /\ \A i \in DOMAIN call.out :
              call.out[i].count <=
                  Cardinality({j \in SeriesEvents : InBucket(j, call.out[i].date)})

\* The scans of the time-of-day request under check: those of company 1 in the window.
TodEvents ==
    {j \in DOMAIN call.rows :
        /\ call.rows[j].company_id = 1
        /\ call.period = "7d" => call.rows[j].scanned_at >= ReadHour - 7 * 24}

\* The half-open intervals of the first five buckets.
TodIntervals == <<<<6, 9>>, <<9, 12>>, <<12, 15>>, <<15, 18>>, <<18, 21>>>>

\* C22: the time-of-day histogram has the six buckets 6-9, 9-12, 12-15, 15-18, 18-21
\* and 21+, in that order; each of the first five counts the scans whose hour of day
\* lies in its half-open interval, 21+ counts the scans of every other hour (21 to
\* 23 and 0 to 5), so that the counts sum to the number of scans; every percentage
\* is the number 0 when there is no scan, and the bucket's share with one decimal
\* otherwise.
C22_TimeOfDayBuckets ==
    call.op = "tod" /\ call.done =>
        /\ Len(call.out) = 6
        /\ \A i \in 1..6 : call.out[i].label = TodLabels[i]
        /\ \A i \in 1..5 :
              call.out[i].count =
                  Cardinality({j \in TodEvents :
                                  /\ TodIntervals[i][1] <= call.rows[j].hour_of_day
                                  /\ call.rows[j].hour_of_day < TodIntervals[i][2]})
        /\ call.out[6].count =
              Cardinality({j \in TodEvents : \/ call.rows[j].hour_of_day < 6
                                             \/ call.rows[j].hour_of_day >= 21})
        /\ call.out[1].count + call.out[2].count + call.out[3].count + call.out[4].count
              + call.out[5].count + call.out[6].count = Cardinality(TodEvents)
        /\ \A i \in 1..6 :
              IF TodEvents = {}
              THEN call.out[i].percentage = NumberZero
              ELSE IsRate(call.out[i].percentage, call.out[i].count,
                          Cardinality(TodEvents))

\* C22 witness: a scan at hour 10 and a scan at hour 23: one in 9-12, one in 21+,
\* 50.0 percent each.
C22_Witness ==
    /\ call.op = "tod" /\ call.done
    /\ {call.rows[j].hour_of_day : j \in TodEvents} = {10, 23}
    /\ call.out[2] = [label |-> "9-12", count |-> 1,
                      percentage |-> [type |-> "string", tenths |-> 500]]
    /\ call.out[6] = [label |-> "21+", count |-> 1,
                      percentage |-> [type |-> "string", tenths |-> 500]]

\* The questions of the top-questions request under check: those of company 1 in
\* the window, and the groups they form by normalized text.
WindowQuestions ==
    {j \in DOMAIN call.rows :
        /\ call.rows[j].company_id = 1
        /\ call.period = "7d" => call.rows[j].asked_at >= ReadHour - 7 * 24}
GroupOf(text) ==
    {j \in WindowQuestions : QuestionKey(call.rows[j].question_text) = QuestionKey(text)}
QuestionGroups == {GroupOf(call.rows[j].question_text) : j \in WindowQuestions}

\* The limit of the request: the one supplied (a negative one allows no group), 10
\* when none is.
RequestedLimit ==
    IF ~call.limit.given THEN 10
    ELSE IF call.limit.value < 0 THEN 0 ELSE call.limit.value

RECURSIVE SumGroupCounts(_)
SumGroupCounts(entries) ==
    IF entries = <<>> THEN 0 ELSE Head(entries).count + SumGroupCounts(Tail(entries))

\* C23: top questions groups the company's questions of the window by lower-cased,
\* trimmed text; each returned group has the combined count of its questions and the
\* text, step and item name of its first question; no two returned groups have the
\* same normalized text; the groups come in non-increasing order of count; at most
\* limit groups are returned (10 when no limit is supplied); and when the number of
\* groups does not exceed the limit, every group is returned and the counts sum to
\* the number of questions.
C23_TopQuestions ==
    call.op = "questions" /\ call.done =>
        /\ \A i \in DOMAIN call.out :
              LET g == GroupOf(call.out[i].question)
              IN /\ g # {}
                 /\ call.out[i].count = Cardinality(g)
                 /\ LET first == CHOOSE j \in g : \A l \in g : j <= l
                    IN /\ call.out[i].question = call.rows[first].question_text
                       /\ call.out[i].step = call.rows[first].step_number
                       /\ call.out[i].skuName = ProductName(call.rows[first].sku_id)
        /\ \A i, l \in DOMAIN call.out :
              i < l => /\ GroupOf(call.out[i].question) # GroupOf(call.out[l].question)
                       /\ call.out[i].count >= call.out[l].count
        /\ Len(call.out) <= RequestedLimit
        /\ Cardinality(QuestionGroups) <= RequestedLimit =>
              /\ Len(call.out) = Cardinality(QuestionGroups)
              /\ SumGroupCounts(call.out) = Cardinality(WindowQuestions)

\* C24: every rating stored on a scan row is absent or an integer from 1 to 5,
\* whatever the public completion records supplied; and the rating breakdown of a
\* company lists the stars in the order 5, 4, 3, 2, 1 with counts that sum to the
\* total rated count it reports.
C24_RatingsInRange ==
    /\ \A j \in DOMAIN scans : scans[j].rating = Null \/ scans[j].rating \in 1..5
    /\ \A c \in Companies :
          LET s == Satisfaction(scans, c, "all", now)
          IN /\ [i \in DOMAIN s.breakdown |-> s.breakdown[i].stars] = <<5, 4, 3, 2, 1>>
             /\ s.breakdown[1].count + s.breakdown[2].count + s.breakdown[3].count
                   + s.breakdown[4].count + s.breakdown[5].count = s.total

\* The presets and their days.
PresetDays(period) ==
    CASE period = "7d" -> 7 [] period = "30d" -> 30 [] period = "3m" -> 90
      [] period = "6m" -> 180 [] period = "1y" -> 365 [] OTHER -> 0

\* C25: an analytics read maps the presets 7d, 30d, 3m, 6m, 1y to the windows that
\* start 7, 30, 90, 180, 365 days before the read, and every other period value,
\* an absent one included, to the unbounded window (no time filter).
C25_PeriodWindows ==
    call.op = "period" /\ call.done =>
        IF PresetDays(call.period) # 0
        THEN call.out = [code |-> 200, filter |-> TRUE,
                         date |-> call.hour - PresetDays(call.period) * 24]
        ELSE call.out.code = 200 /\ ~call.out.filter

\* C26: when every extraction, media-generation, code-generation and storage call of
\* an item's pipeline returns or fails, a stored item is eventually live or in
\* error, unless it is deleted.
C26_EventuallyTerminal ==
    \A r \in ScanIds :
        [](r \in DOMAIN skus =>
              <>(r \notin DOMAIN skus \/ skus[r].status \in {"live", "error"}))

\* The moves of a background task: each stage after the one before it has returned,
\* the catch handler after a stage has thrown.
TaskMoves ==
    {<<"none", "parse">>, <<"parse", "video">>, <<"video", "qr">>, <<"qr", "commit">>,
     <<"commit", "prefs">>, <<"prefs", "email">>, <<"prefs", "end">>, <<"email", "end">>,
     <<"parse", "catch">>, <<"video", "catch">>, <<"qr", "catch">>, <<"email", "catch">>,
     <<"catch", "end">>}

\* C27: the stages of one item's pipeline run in the order extraction, media
\* generation, code generation, commit, notify, one at a time: a task moves only
\* from a stage to the next one, and only when the stage has returned without
\* throwing (a throw leads to the catch handler and to no further stage); media
\* generation is applied to exactly the steps extraction returned, which never
\* change afterwards; the results of the two generators are those of the calls, never
\* change afterwards, and the commit writes exactly these results, with status live,
\* to the item's row (if it is stored) and changes no other column and no other row.
C27_StagesInOrder ==
    [][\A r \in Slots :
          /\ task'[r].pc # task[r].pc => <<task[r].pc, task'[r].pc>> \in TaskMoves
          /\ (task'[r].pc # task[r].pc /\ task'[r].pc \notin {"catch", "end"}) =>
                task'[r].threw = "none"
          /\ (task[r].pc = "parse" /\ task'[r].pc = "video") =>
                task'[r].steps = parseSteps
          /\ task[r].pc \notin {"none", "parse"} => task'[r].steps = task[r].steps
          /\ (task[r].pc = "video" /\ task'[r].pc = "qr") =>
                /\ task'[r].video.stepCount = Len(task[r].steps)
                /\ task'[r].video.videoDuration = Len(task[r].steps) * 38
                /\ task'[r].video.videoUrl = r
          /\ task[r].pc # "video" => task'[r].video = task[r].video
          /\ (task[r].pc = "qr" /\ task'[r].pc = "commit") =>
                task'[r].qr = [qrCodeUrl |-> r, qrTargetUrl |-> req[r].skuCode]
          /\ task[r].pc # "qr" => task'[r].qr = task[r].qr
          /\ (task[r].pc = "commit" /\ task'[r].pc = "prefs") =>
                /\ DOMAIN skus' = DOMAIN skus
                /\ \A i \in DOMAIN skus : i # r => skus'[i] = skus[i]
                /\ r \in DOMAIN skus =>
                      skus'[r] = [skus[r] EXCEPT
                                    !.status = "live",
                                    !.video_url = task[r].video.videoUrl,
                                    !.video_duration = task[r].video.videoDuration,
                                    !.step_count = task[r].video.stepCount,
                                    !.qr_code_url = task[r].qr.qrCodeUrl,
                                    !.qr_target_url = task[r].qr.qrTargetUrl]]_vars

\* C27 witness: the task of the second request has run all five stages: its item is
\* live with the six steps of the extraction, 228 seconds, the code image of the item
\* and the target of its code, and the notification with them is delivered.
C27_Witness ==
    /\ 2 \in DOMAIN skus
    /\ task[2].pc = "end" /\ task[2].threw = "none"
    /\ skus[2].status = "live"
    /\ skus[2].step_count = 6 /\ skus[2].video_duration = 228
    /\ skus[2].qr_code_url = 2 /\ skus[2].qr_target_url = 1
    /\ \E m \in outbox : m.qrCodeUrl = 2 /\ m.qrTargetUrl = 1

\* The item of request r was stored (the request was answered 202) and is stored no
\* more: it was deleted.
Deleted(r) == req[r].resp.code = 202 /\ r \notin DOMAIN skus

\* C28: an item is removed only by a deletion of its company, and a deleted item is
\* never stored again, whatever its pipeline does afterwards: the commit and the
\* error-marking update of a task whose item is deleted change no row, and every
\* status poll for a deleted item is answered 404.
C28_DeletedStaysAbsent ==
    [][\A r \in Slots :
          /\ Deleted(r) => r \notin DOMAIN skus'
          /\ (Deleted(r) /\ task'[r].pc # task[r].pc) => skus' = skus
          /\ (Deleted(r) /\ lastPoll' # lastPoll /\ lastPoll'.id = r) =>
                lastPoll'.resp = [code |-> 404, error |-> "SKU not found"]
          /\ (r \in DOMAIN skus /\ r \notin DOMAIN skus') =>
                /\ task' = task
                /\ \A i \in DOMAIN skus : i # r => i \in DOMAIN skus' /\ skus'[i] = skus[i]]_vars

\* C28 witness: an item is deleted while its task is still running (the task is
\* between its commit and its notification), and the last poll of its owner for it
\* was answered 404.
C28_Witness ==
    \E r \in Slots :
        /\ Deleted(r)
        /\ task[r].pc \in {"prefs", "email"}
        /\ lastPoll.id = r
        /\ lastPoll.company = req[r].company
        /\ lastPoll.resp.code = 404

\* The step answers create request r.
Answers(r) == req[r].pc # "done" /\ req'[r].pc = "done"

\* C29: a step of a create request that does not accept it (the guard and the
\* handler before the insert, the answers 403, 400 and 409, and the 500 of an insert
\* the unique constraint refuses) leaves the items as they are and starts no task; a rejected request never has an item or a task; the step
\* that accepts a request (202) adds exactly one item, the request's own, in status
\* processing with no derived column, leaves every other item as it is, and starts
\* exactly one task, for that item; a task is started by no other step.
C29_CreateFrame ==
    [][\A r \in Slots :
          /\ (req'[r] # req[r] /\ req'[r].resp.code # 202) =>
                skus' = skus /\ task' = task
          /\ (Answers(r) /\ req'[r].resp.code # 202) =>
                /\ req'[r].resp.code \in {400, 403, 409, 500}
                /\ r \notin DOMAIN skus'
                /\ task'[r].pc = "none"
          /\ (req[r].pc = "done" /\ req[r].resp.code # 202) =>
                r \notin DOMAIN skus' /\ task'[r].pc = "none"
          /\ (Answers(r) /\ req'[r].resp.code = 202) =>
                /\ r \notin DOMAIN skus
                /\ DOMAIN skus' = DOMAIN skus \cup {r}
                /\ \A i \in DOMAIN skus : skus'[i] = skus[i]
                /\ skus'[r].status = "processing"
                /\ DerivedUnset(skus'[r])
                /\ skus'[r].company_id = req[r].company
                /\ skus'[r].sku_code = req[r].skuCode
                /\ task[r].pc = "none" /\ task'[r].pc = "parse"
                /\ \A q \in Slots : q # r => task'[q] = task[q]
          /\ (task[r].pc = "none" /\ task'[r].pc # "none") =>
                Answers(r) /\ req'[r].resp.code = 202]_vars

\* C29 witness: one request was accepted, one was answered 409 and one 400; the
\* only item is the one of the accepted request, and only that request has a task.
C29_Witness ==
    \E r, p, q \in Slots :
        /\ req[r].resp.code = 202 /\ req[p].resp.code = 409 /\ req[q].resp.code = 400
        /\ DOMAIN skus = {r}
        /\ task[r].pc # "none" /\ task[p].pc = "none" /\ task[q].pc = "none"

\* C30: every overview response is consistent, also when public scan and completion
\* records run between its queries: the completed count it reports does not exceed
\* the total count it reports, and the completion rate it reports lies within 0
\* and 100.
C30_OverviewConsistent ==
    overview.pc = "done" =>
        /\ overview.resp.completedScans <= overview.resp.totalScans
        /\ overview.resp.completionRate.tenths >= 0
        /\ overview.resp.completionRate.tenths <= 1000

====
